---- MODULE Spec2Model ----
(***************************************************************************)
(* A model of the interaction-to-code engine of test-generator:           *)
(*   - the position resolver   (findJSXElementAtPosition)                 *)
(*   - the naming engine       (generateTestId, makeUnique)               *)
(*   - the insertion executor  (insertTestIds, addTestIdToElement)        *)
(*   - the insertion planner   (ClaudeAgent.processSession)               *)
(*                                                                         *)
(* Source text is modelled by what the code reads of it: the JSX opening  *)
(* elements of a file in document order, each with the position of its    *)
(* "<", its tag name and its attribute list.  An identifier string is the *)
(* sequence of its "-"-separated segments, so `${testId}-${counter}` is   *)
(* Append(testId, ToString(counter)).                                      *)
(***************************************************************************)
EXTENDS Integers, Sequences, FiniteSets, TLC

VARIABLES
    pc,               \* position of the running operation
    \* ---- findJSXElementAtPosition(jsxElements, line, column)
    jsxElements,      \* the element index of one file
    line,             \* queried line
    column,           \* queried column
    found,            \* the returned occurrence: <<>> (undefined) or <<el>>
    \* ---- makeUnique(testId, existingIds)
    testId,           \* the candidate
    existingIds,      \* the set of identifiers in use
    unique,           \* the returned identifier: <<>> before the call, else <<id>>
    \* ---- generateTestId(strategy, element, source, action)
    argStrategy,        \* the naming strategy
    argElement,        \* the ElementInfo of the interaction
    argSource,        \* <<>> (undefined) or <<SourceLocation>>
    argAction,        \* the action hint, "" if none is given
    \* ---- insertTestIds(code, insertions)
    code,             \* the source text given to insertTestIds
    insertions,       \* the Edits given to insertTestIds
    ast,              \* the parsed (and mutated) tree
    existingTestIds,  \* identifiers collected from the file, plus those inserted
    sorted,           \* the Edits in application order
    idx,              \* position of the for-of loop in sorted (1-based)
    inserted,         \* count of applied Edits
    skipped,          \* skip list
    resultCode,       \* printSource(ast) once the pass is over, else <<>>
    pass,             \* 1 for the first application of the plan, 2 for the second
    \* ---- ClaudeAgent.processSession(session)
    session,          \* the interactions of the recorded session
    disk,             \* the source files: path -> <<>> (no such file) or <<text>>
    result,           \* the ProcessingResult, <<>> before the call
    \* ---- generatePlaywrightTest(session, config, testIdMap) and its parts
    rawInteractions,    \* the list given to consolidateInteractions
    consolidated,     \* the list it returns
    argInteraction,    \* the interaction given to generateAction
    testIdMap,        \* cssSelector -> identifier, as a set of pairs
    actionLine,       \* the statement generateAction returns, <<>> for null
    generatedTests,   \* the files generatePlaywrightTest returns
    flowGroups,       \* what groupInteractions returns, <<>> before the call
    \* ---- applyResult(result, session) and rollback(backupPaths)
    detectedRoot,     \* what detectAppRoot finds: <<>> (null) or <<root>>
    applyConfig,      \* the configuration applyResult works under, <<>> before
    diffIdx,          \* position of applyResult in result.fileDiffs
    applied,          \* the paths applyResult has written
    applyErrors,      \* the errors of applyResult
    restored,         \* the paths rollback returns
    rollbackErrors,   \* the errors of rollback
    preApply,         \* the disk when applyResult was called
    sessions,         \* SessionManager.sessions: per id, <<>> or <<the session>>
    inFlight          \* <<>>, or <<id>> while the process route awaits the agent

resolverVars == <<jsxElements, line, column, found>>
namingVars   == <<testId, existingIds, unique, argStrategy, argElement, argSource,
                  argAction>>
inserterVars == <<code, insertions, ast, existingTestIds, sorted, idx, inserted,
                  skipped, resultCode, pass>>
applyVars    == <<detectedRoot, applyConfig, diffIdx, applied, applyErrors, restored,
                  rollbackErrors, preApply>>
processVars  == <<session, disk, result, applyVars>>
generatorVars == <<rawInteractions, consolidated, argInteraction, testIdMap, actionLine,
                   generatedTests, flowGroups>>
lifecycleVars == <<sessions, inFlight>>
vars == <<pc, resolverVars, namingVars, inserterVars, processVars, generatorVars,
          lifecycleVars>>

-----------------------------------------------------------------------------
(* Bounds *)

\* Longest Edit list given to insertTestIds.
MaxEdits == 2

\* Sessions the session manager holds (below maxSessionRetention, 10 by
\* default, so that enforceRetention removes nothing).
MaxSessions == 2

\* Interactions recorded into one session.
MaxRecorded == 2
\* Longest interaction list of a session.
MaxInteractions == 2
\* Largest numeric suffix present in a set given to makeUnique.
MaxSuffix == 4
\* Longest event list given to consolidateInteractions.
MaxEvents == 4
\* Longest interaction list of a session given to generatePlaywrightTest.
MaxSteps == 3
\* Longest interaction list of a session whose result is applied.
MaxApplied == 2

-----------------------------------------------------------------------------
(* Generic helpers *)

Range(s) == {s[i] : i \in 1..Len(s)}

SeqsUpTo(S, n) == UNION {[1..k -> S] : k \in 0..n}

Abs(n) == IF n < 0 THEN -n ELSE n

\* F of the value of v: what a `const x = v` of the code is, v computed once.
Const(v, F(_)) == CHOOSE r \in {F(x) : x \in {v}} : TRUE

-----------------------------------------------------------------------------
(* Source text *)

\* An attribute as written in the text.
\*   type      "JSXAttribute" | "JSXSpreadAttribute"
\*   name      attribute name ("" for a spread)
\*   valueType "StringLiteral" | "JSXExpressionContainer" | "none"
\*   value     the literal's value, an identifier string (<<>> when not a literal)
Attr(name, valueType, value) ==
    [type |-> "JSXAttribute", name |-> name, valueType |-> valueType, value |-> value]

SpreadAttr ==
    [type |-> "JSXSpreadAttribute", name |-> "", valueType |-> "none", value |-> <<>>]

ClassNameAttr == Attr("className", "StringLiteral", <<"btn">>)
OnClickAttr   == Attr("onClick", "JSXExpressionContainer", <<>>)
TestIdAttr(id) == Attr("data-testid", "StringLiteral", id)
\* data-testid={expr}: the attribute is there, its value is no string literal
DynamicTestIdAttr == Attr("data-testid", "JSXExpressionContainer", <<>>)

\* An opening tag of the text.
Element(l, c, tag, attrs) ==
    [line |-> l, column |-> c, tagName |-> tag, attributes |-> attrs]

\* Document order of two opening tags.
Before(p, q) == p.line < q.line \/ (p.line = q.line /\ p.column < q.column)

\* A text is well formed when its tags are in strictly increasing document order.
IsText(t) == \A i \in 1..(Len(t) - 1) : Before(t[i], t[i + 1])

\* The texts that have, at each position of the sequence `positions` (in
\* document order), either no tag or a tag of one of the given kinds
\* (a kind is a pair <<tag name, attribute list>>).
RECURSIVE TextsOver(_, _)
TextsOver(positions, kinds) ==
    IF positions = <<>> THEN {<<>>}
    ELSE LET p == Head(positions)
             rest == TextsOver(Tail(positions), kinds)
         IN rest \cup
            {<<Element(p[1], p[2], k[1], k[2])>> \o r : k \in kinds, r \in rest}

-----------------------------------------------------------------------------
(* Element index (analyzeReactFile) *)

IsTestIdAttr(attr) == attr.type = "JSXAttribute" /\ attr.name = "data-testid"

IsLiteral(attr) == attr.valueType \in {"StringLiteral", "Literal"}

\* The JSXElementInfo that visitJSXOpeningElement pushes for one opening tag.
\* existingTestId is <<>> for undefined, else <<id>>.
JSXElementInfo(el) ==
    LET ids == SelectSeq(el.attributes, LAMBDA a : IsTestIdAttr(a) /\ IsLiteral(a))
    IN [tagName |-> el.tagName,
        line |-> el.line,
        column |-> el.column,
        hasTestId |-> \E i \in 1..Len(el.attributes) : IsTestIdAttr(el.attributes[i]),
        existingTestId |-> IF ids = <<>> THEN <<>> ELSE <<ids[Len(ids)].value>>]

\* jsxElements of analyzeReactFile(code): one entry per opening tag, in visit
\* (document) order.
AnalyzeReactFile(text) == [i \in 1..Len(text) |-> JSXElementInfo(text[i])]

-----------------------------------------------------------------------------
(* Position resolver (findJSXElementAtPosition) *)

\* One step of the reduce callback, for a ties-go-to-the-last variant.
ClosestStepLastTie(closest, el, l) ==
    IF closest = <<>> THEN <<el>>
    ELSE IF Abs(el.line - l) <= Abs(closest[1].line - l) THEN <<el>> ELSE closest

\* The reduce callback: (closest, el) => ...
ClosestStep(closest, el, l) ==
    IF closest = <<>> THEN <<el>>
    ELSE IF Abs(el.line - l) < Abs(closest[1].line - l) THEN <<el>> ELSE closest

\* jsxElements.reduce(callback, undefined)
RECURSIVE ReduceClosest(_, _, _)
ReduceClosest(els, l, closest) ==
    IF els = <<>> THEN closest
    ELSE ReduceClosest(Tail(els), l, ClosestStep(closest, Head(els), l))

FindJSXElementAtPosition(els, l, c) ==
    LET exact == SelectSeq(els, LAMBDA el : el.line = l /\ el.column = c)
        sameLine == SelectSeq(els, LAMBDA el : el.line = l)
    IN IF exact # <<>> THEN <<exact[1]>>
       ELSE IF Len(sameLine) = 1 THEN <<sameLine[1]>>
       ELSE ReduceClosest(els, l, <<>>)

-----------------------------------------------------------------------------
(* Naming engine (makeUnique) *)

\* `${testId}-${counter}`
Suffixed(id, counter) == Append(id, ToString(counter))

\* The while loop of makeUnique, from a given counter.
RECURSIVE FirstFreeCounter(_, _, _)
FirstFreeCounter(id, ids, counter) ==
    IF Suffixed(id, counter) \in ids THEN FirstFreeCounter(id, ids, counter + 1)
    ELSE counter

\* A makeUnique that returns the candidate as it is.
MakeUniqueIdentity(id, ids) == id

\* A makeUnique that appends -2 without looking at the set again.
MakeUniqueNoLoop(id, ids) == IF id \notin ids THEN id ELSE Suffixed(id, 2)

MakeUnique(id, ids) ==
    IF id \notin ids THEN id
    ELSE Suffixed(id, FirstFreeCounter(id, ids, 2))

-----------------------------------------------------------------------------
(* Source model (parseSource / printSource) *)

\* recast.parse: every node of the tree records where it was read from
\* (loc); the tree of a text has one JSXOpeningElement per opening tag.
ParseAttr(a) ==
    [type |-> a.type, name |-> a.name, valueType |-> a.valueType,
     value |-> a.value, loc |-> TRUE]

ParseSource(text) ==
    [i \in 1..Len(text) |->
        [loc |-> [line |-> text[i].line, column |-> text[i].column],
         name |-> text[i].tagName,
         attributes |-> [j \in 1..Len(text[i].attributes) |->
                            ParseAttr(text[i].attributes[j])]]]

\* Number of characters of an identifier string.
RECURSIVE IdLength(_)
IdLength(id) ==
    IF id = <<>> THEN 0
    ELSE Len(Head(id)) + (IF Len(id) > 1 THEN 1 ELSE 0) + IdLength(Tail(id))

\* Characters a node adds to its line when printed: a node read from the text
\* is reprinted from the text, a built one is printed as ` data-testid='id'`.
AddedWidth(attr) == IF attr.loc THEN 0 ELSE 15 + IdLength(attr.value)

RECURSIVE SumAdded(_)
SumAdded(attrs) ==
    IF attrs = <<>> THEN 0 ELSE AddedWidth(Head(attrs)) + SumAdded(Tail(attrs))

\* Columns by which the i-th opening tag moves right: the characters added
\* to the tags before it on its line (tags are printed on one line).
Shift(tree, i) ==
    LET Add(j) == IF tree[j].loc.line = tree[i].loc.line
                  THEN SumAdded(tree[j].attributes) ELSE 0
        Acc[j \in 0..(i - 1)] == IF j = 0 THEN 0 ELSE Acc[j - 1] + Add(j)
    IN Acc[i - 1]

\* The text of an attribute: a built Literal is read back as a StringLiteral.
PrintAttr(a) ==
    [type |-> a.type, name |-> a.name,
     valueType |-> IF a.valueType = "Literal" THEN "StringLiteral" ELSE a.valueType,
     value |-> a.value]

\* A printer that prints only what was read from the text.
PrintSourceOriginalOnly(tree) ==
    [i \in 1..Len(tree) |->
        Element(tree[i].loc.line, tree[i].loc.column, tree[i].name,
                LET kept == SelectSeq(tree[i].attributes, LAMBDA a : a.loc)
                IN [j \in 1..Len(kept) |-> PrintAttr(kept[j])])]

\* A printer that lays the tree out anew, one opening tag per line.
PrintSourcePretty(tree) ==
    [i \in 1..Len(tree) |->
        Element(i, 0, tree[i].name,
                [j \in 1..Len(tree[i].attributes) |-> PrintAttr(tree[i].attributes[j])])]

\* recast.print(ast).code
PrintSource(tree) ==
    [i \in 1..Len(tree) |->
        Element(tree[i].loc.line, tree[i].loc.column + Shift(tree, i), tree[i].name,
                [j \in 1..Len(tree[i].attributes) |-> PrintAttr(tree[i].attributes[j])])]

-----------------------------------------------------------------------------
(* Insertion executor (insertTestIds / addTestIdToElement) *)

\* A TestIdInsertion (an Edit).
Insertion(path, l, c, id, tag) ==
    [filePath |-> path, lineNumber |-> l, columnNumber |-> c, testId |-> id,
     elementTagName |-> tag]

\* String.prototype.toLowerCase on tag names.
ToLowerCase(s) ==
    CASE s = "Button" -> "button"
      [] s = "Input" -> "input"
      [] OTHER -> s

\* Skip reasons of insertTestIds.
AlreadyExists(ins) ==
    [testId |-> ins.testId, reason |-> "already exists in file",
     line |-> 0, column |-> 0]

CouldNotFind(ins) ==
    [testId |-> ins.testId, reason |-> "Could not find JSX element at line",
     line |-> ins.lineNumber, column |-> ins.columnNumber]

\* The visitJSXAttribute pass: the string values of the data-testid attributes.
CollectTestIds(tree) ==
    UNION {{tree[i].attributes[j].value :
                j \in {j \in 1..Len(tree[i].attributes) :
                          /\ IsTestIdAttr(tree[i].attributes[j])
                          /\ IsLiteral(tree[i].attributes[j])}} :
           i \in 1..Len(tree)}

\* A comparator that sorts by ascending line, then ascending column.
CompareAscending(a, b) ==
    IF a.lineNumber - b.lineNumber # 0 THEN a.lineNumber - b.lineNumber
    ELSE a.columnNumber - b.columnNumber

\* The comparator of the sort: negative when a goes first.
Compare(a, b) ==
    IF b.lineNumber - a.lineNumber # 0 THEN b.lineNumber - a.lineNumber
    ELSE b.columnNumber - a.columnNumber

\* [...insertions].sort(compare): Array.prototype.sort is stable.
RECURSIVE SortInsertions(_)
SortInsertions(s) ==
    IF s = <<>> THEN <<>>
    ELSE LET rest == SortInsertions(Tail(s))
             x == Head(s)
             \* x stood before every element of rest: it goes before the first
             \* element that does not sort strictly before it
             k == Cardinality({i \in 1..Len(rest) :
                      \A j \in 1..i : Compare(rest[j], x) < 0})
         IN SubSeq(rest, 1, k) \o <<x>> \o SubSeq(rest, k + 1, Len(rest))

HasTestId(node) ==
    \E j \in 1..Len(node.attributes) : IsTestIdAttr(node.attributes[j])

\* A visitor that looks at the line and the tag name only.
MatchesAnyColumn(node, ins) ==
    LET lineMatch == node.loc.line = ins.lineNumber
        tagOk == \/ ins.elementTagName = ""
                 \/ ToLowerCase(node.name) = ToLowerCase(ins.elementTagName)
                 \/ ins.elementTagName = "*"
    IN lineMatch /\ tagOk /\ ~HasTestId(node)

\* The three tests visitJSXOpeningElement makes before it inserts.
Matches(node, ins) ==
    LET lineMatch == node.loc.line = ins.lineNumber
        colMatch == ins.columnNumber = 0 \/ node.loc.column = ins.columnNumber
        tagOk == \/ ins.elementTagName = ""
                 \/ ToLowerCase(node.name) = ToLowerCase(ins.elementTagName)
                 \/ ins.elementTagName = "*"
    IN lineMatch /\ colMatch /\ tagOk /\ ~HasTestId(node)

\* builders.jsxAttribute(jsxIdentifier('data-testid'), literal(testId))
BuiltTestIdAttr(id) ==
    [type |-> "JSXAttribute", name |-> "data-testid", valueType |-> "Literal",
     value |-> id, loc |-> FALSE]

\* Index of the last spread attribute, 0 if there is none (the reduce).
LastSpreadIndex(attrs) ==
    LET spreads == {j \in 1..Len(attrs) : attrs[j].type = "JSXSpreadAttribute"}
    IN IF spreads = {} THEN 0 ELSE CHOOSE j \in spreads : \A k \in spreads : k <= j

\* attrs.splice(at, 0, attr) with at counted from 0
Splice(attrs, at, attr) ==
    SubSeq(attrs, 1, at) \o <<attr>> \o SubSeq(attrs, at + 1, Len(attrs))

\* An insertion that always appends.
WithTestIdAppended(attrs, id) == Append(attrs, BuiltTestIdAttr(id))

\* The attribute list after the insertion: after the last spread, else pushed.
WithTestId(attrs, id) ==
    IF LastSpreadIndex(attrs) > 0
    THEN Splice(attrs, LastSpreadIndex(attrs), BuiltTestIdAttr(id))
    ELSE Append(attrs, BuiltTestIdAttr(id))

\* A visitor that keeps the last match of the visit instead of the first.
TargetIndexLast(tree, ins) ==
    LET hits == {i \in 1..Len(tree) : Matches(tree[i], ins)}
    IN IF hits = {} THEN 0 ELSE CHOOSE i \in hits : \A k \in hits : k <= i

\* Index of the opening element the visitor inserts into: the first match in
\* visit (document) order; 0 if the visit ends with found = false.
TargetIndex(tree, ins) ==
    LET hits == {i \in 1..Len(tree) : Matches(tree[i], ins)}
    IN IF hits = {} THEN 0 ELSE CHOOSE i \in hits : \A k \in hits : i <= k

\* addTestIdToElement(ast, insertion): the tree is mutated in place.
AddTestIdToElement(tree, ins) ==
    LET t == TargetIndex(tree, ins)
    IN IF t = 0 THEN [found |-> FALSE, ast |-> tree]
       ELSE [found |-> TRUE,
             ast |-> [tree EXCEPT ![t].attributes = WithTestId(@, ins.testId)]]

\* A loop body without the duplicate check.
InsertOneUnchecked(st, ins) ==
    LET r == AddTestIdToElement(st.ast, ins)
    IN IF r.found
       THEN [st EXCEPT !.ast = r.ast, !.inserted = @ + 1,
                       !.existingTestIds = @ \cup {ins.testId}]
       ELSE [st EXCEPT !.skipped = Append(@, CouldNotFind(ins))]

\* A loop body that forgets the Edit it could not locate.
InsertOneDropSkip(st, ins) ==
    IF ins.testId \in st.existingTestIds
    THEN [st EXCEPT !.skipped = Append(@, AlreadyExists(ins))]
    ELSE LET r == AddTestIdToElement(st.ast, ins)
         IN IF r.found
            THEN [st EXCEPT !.ast = r.ast, !.inserted = @ + 1,
                            !.existingTestIds = @ \cup {ins.testId}]
            ELSE st

\* The body of the for-of loop, on the loop's state
\* st = [ast, existingTestIds, inserted, skipped].
InsertOne(st, ins) ==
    IF ins.testId \in st.existingTestIds
    THEN [st EXCEPT !.skipped = Append(@, AlreadyExists(ins))]
    ELSE LET r == AddTestIdToElement(st.ast, ins)
         IN IF r.found
            THEN [st EXCEPT !.ast = r.ast, !.inserted = @ + 1,
                            !.existingTestIds = @ \cup {ins.testId}]
            ELSE [st EXCEPT !.skipped = Append(@, CouldNotFind(ins))]

\* The state of insertTestIds when the loop starts.
InsertStart(text) ==
    [ast |-> ParseSource(text),
     existingTestIds |-> CollectTestIds(ParseSource(text)),
     inserted |-> 0,
     skipped |-> <<>>]

RECURSIVE InsertAll(_, _)
InsertAll(st, edits) ==
    IF edits = <<>> THEN st ELSE InsertAll(InsertOne(st, Head(edits)), Tail(edits))

\* insertTestIds(code, insertions) as a function: {code, inserted, skipped}
InsertTestIds(text, edits) ==
    LET st == InsertAll(InsertStart(text), SortInsertions(edits))
    IN [code |-> PrintSource(st.ast), inserted |-> st.inserted, skipped |-> st.skipped]

-----------------------------------------------------------------------------
(* Naming engine (generateTestId) *)

\* cleanSegment(str): toKebab, hyphens collapsed and trimmed, cut to the
\* maximal length; the result is given by its "-"-separated segments.  The
\* words of the model are shorter than the cut.
CleanSegment(str) ==
    CASE str = "" -> <<>>
      [] str = "LoginPage" -> <<"login", "page">>
      [] str = "LoginForm" -> <<"login", "form">>
      [] str = "App" -> <<"app">>
      [] str = "Save Changes" -> <<"save", "changes">>
      [] str = "Close and Save" -> <<"close", "and", "save">>
      [] str = "Hello" -> <<"hello">>
      [] str = "Reopen" -> <<"reopen">>
      [] str = "Close dialog" -> <<"close", "dialog">>
      [] str = "close-dialog" -> <<"close", "dialog">>
      [] OTHER -> <<str>>

\* cleanSegment(str, 20) as a string: the label of the model is shorter
\* than the cut.
CleanSegmentString(str) ==
    CASE str = "Close dialog" -> "close-dialog"
      [] OTHER -> str

\* parts.join('-') for parts that are all non-empty
RECURSIVE JoinParts(_)
JoinParts(parts) ==
    IF parts = <<>> THEN <<>> ELSE Head(parts) \o JoinParts(Tail(parts))

\* a || b || ... on strings: the first non-empty one, "" if there is none
RECURSIVE FirstTruthy(_)
FirstTruthy(strs) ==
    IF strs = <<>> THEN ""
    ELSE IF Head(strs) # "" THEN Head(strs) ELSE FirstTruthy(Tail(strs))

\* actionWords
ActionWords ==
    <<"submit", "login", "logout", "save", "delete", "cancel", "close", "open",
      "search", "add", "edit", "create", "remove">>

\* text.toLowerCase().includes(word) on the texts of the model
Includes(text, word) ==
    CASE text = "Save Changes" -> word = "save"
      [] text = "Close and Save" -> word \in {"close", "save"}
      [] text = "Reopen" -> word = "open"
      [] text = "Submit" -> word = "submit"
      [] text = "Sign in" -> FALSE
      [] OTHER -> FALSE

\* An inferAction that looks at the attribute type before the text.
InferActionTypeFirst(element) ==
    LET text == IF element.textContent # "" THEN element.textContent
                ELSE element.innerText
        hits == {k \in 1..Len(ActionWords) : Includes(text, ActionWords[k])}
    IN IF element.inputType \in {"submit", "email", "password", "search"}
       THEN element.inputType
       ELSE IF element.attributes.type = "submit" THEN "submit"
       ELSE IF hits # {}
       THEN ActionWords[CHOOSE k \in hits : \A h \in hits : k <= h]
       ELSE IF element.ariaLabel # "" THEN CleanSegmentString(element.ariaLabel)
       ELSE ""

\* inferAction(element): "" stands for null
InferAction(element) ==
    LET text == IF element.textContent # "" THEN element.textContent
                ELSE element.innerText
        hits == {k \in 1..Len(ActionWords) : Includes(text, ActionWords[k])}
    IN IF element.inputType \in {"submit", "email", "password", "search"}
       THEN element.inputType
       ELSE IF hits # {}
       THEN ActionWords[CHOOSE k \in hits : \A h \in hits : k <= h]
       ELSE IF element.attributes.type = "submit" THEN "submit"
       ELSE IF element.ariaLabel # "" THEN CleanSegmentString(element.ariaLabel)
       ELSE ""

\* componentAction(element, source, action)
ComponentAction(element, source, action) ==
    LET component == IF source # <<>> /\ source[1].componentName # ""
                     THEN <<CleanSegment(source[1].componentName)>> ELSE <<>>
        actionHint == IF action # "" THEN action ELSE InferAction(element)
        hint == IF actionHint # "" THEN <<CleanSegment(actionHint)>> ELSE <<>>
    IN JoinParts(component \o hint \o <<CleanSegment(element.tagName)>>)

\* inferIdentifier(element)
InferIdentifier(element) ==
    FirstTruthy(<<element.ariaLabel, element.textContent, element.placeholder>>)

\* hierarchical(element, source)
Hierarchical(element, source) ==
    LET h == IF source # <<>> THEN source[1].componentHierarchy ELSE <<>>
        top == SubSeq(h, 1, IF Len(h) < 3 THEN Len(h) ELSE 3)
        reversed == [i \in 1..Len(top) |-> CleanSegment(top[Len(top) + 1 - i])]
        identifier == InferIdentifier(element)
    IN JoinParts(reversed \o
                 <<IF identifier # "" THEN CleanSegment(identifier)
                   ELSE CleanSegment(element.tagName)>>)

\* descriptive(element)
Descriptive(element) ==
    LET label == FirstTruthy(<<element.ariaLabel, element.textContent,
                               element.placeholder, element.innerText>>)
    IN JoinParts((IF label # "" THEN <<CleanSegment(label)>> ELSE <<>>) \o
                 <<CleanSegment(element.tagName)>>)

GenerateTestId(strategy, element, source, action) ==
    CASE strategy.type = "hierarchical" -> Hierarchical(element, source)
      [] strategy.type = "descriptive" -> Descriptive(element)
      [] OTHER -> ComponentAction(element, source, action)

-----------------------------------------------------------------------------
(* Insertion planner (ClaudeAgent.processSession) *)

\* DEFAULT_CONFIG.namingStrategy
NamingStrategy == [type |-> "component-action"]

\* A SourceLocation.  A file path is the sequence of its segments (all
\* paths of the model are absolute); <<>> stands for no path.
SourceLocation(path, l, c, component) ==
    [filePath |-> path, lineNumber |-> l, columnNumber |-> c,
     componentName |-> component, componentHierarchy |-> <<component>>]

\* An ElementInfo with its optional fields absent ("" or, for the attribute
\* record, the attributes the generator reads).
ElementInfo(tag, selector) ==
    [tagName |-> tag, cssSelector |-> selector, textContent |-> "",
     attributes |-> [id |-> "", type |-> "", dataSource |-> <<>>],
     existingTestId |-> <<>>,
     ariaLabel |-> "", ariaRole |-> "", innerText |-> "", placeholder |-> "",
     inputType |-> "", value |-> ""]

\* An InteractionData: source is <<>> (none) or <<SourceLocation>>.
InteractionData(type, url, el, source, value, key) ==
    [type |-> type, url |-> url, element |-> el, source |-> source,
     value |-> value, key |-> key]

Interaction(type, tag, selector, source) ==
    InteractionData(type, "", ElementInfo(tag, selector), source, "", "")

\* A warning string, by its fixed beginning and what it names.
Warning(message, path, l, c, id, reason) ==
    [message |-> message, path |-> path, line |-> l, column |-> c,
     testId |-> id, reason |-> reason]

\* Map.prototype.set on a map kept as a set of <<key, value>> pairs
MapSet(m, k, v) == {e \in m : e[1] # k} \cup {<<k, v>>}

\* The keys of the Map groupBySourceFile builds, in insertion order.
RECURSIVE GroupKeys(_, _)
GroupKeys(interactions, seen) ==
    IF interactions = <<>> THEN <<>>
    ELSE LET it == Head(interactions)
             path == IF it.source = <<>> THEN <<>> ELSE it.source[1].filePath
         IN IF path = <<>> \/ path \in seen THEN GroupKeys(Tail(interactions), seen)
            ELSE <<path>> \o GroupKeys(Tail(interactions), seen \cup {path})

\* groups.get(filePath)
GroupOf(interactions, path) ==
    SelectSeq(interactions,
              LAMBDA it : it.source # <<>> /\ it.source[1].filePath = path)

\* Lines 105-150: the body of the loop over the interactions of one file, on
\* acc = [warnings, errors, fileDiffs, testIdMap, allInsertions, existingIds].
PlanInteraction(acc, jsxEls, path, it) ==
    LET l == it.source[1].lineNumber
        c == it.source[1].columnNumber
        jsxEl == FindJSXElementAtPosition(jsxEls, l, c)
        id == MakeUnique(GenerateTestId(NamingStrategy, it.element, it.source, it.type),
                         acc.existingIds)
    IN IF l = 0
       THEN [acc EXCEPT !.warnings = Append(@,
                Warning("No source location for interaction", <<>>, 0, 0, <<>>, ""))]
       ELSE IF jsxEl = <<>>
       THEN [acc EXCEPT !.warnings = Append(@,
                Warning("Could not find JSX element at", path, l, c, <<>>, ""))]
       ELSE IF jsxEl[1].hasTestId /\ jsxEl[1].existingTestId # <<>>
       THEN [acc EXCEPT !.testIdMap =
                MapSet(@, it.element.cssSelector, jsxEl[1].existingTestId[1])]
       ELSE [acc EXCEPT
                !.existingIds = @ \cup {id},
                !.testIdMap = MapSet(@, it.element.cssSelector, id),
                !.allInsertions =
                    Append(@, Insertion(path, l, c, id, jsxEl[1].tagName))]

RECURSIVE PlanInteractions(_, _, _, _)
PlanInteractions(acc, jsxEls, path, its) ==
    IF its = <<>> THEN acc
    ELSE Const(PlanInteraction(acc, jsxEls, path, Head(its)),
               LAMBDA next : PlanInteractions(next, jsxEls, path, Tail(its)))

\* Lines 152-178: apply the Edits of the file, keep the diff and the skips.
ApplyToFile(acc, path, text) ==
    Const(SelectSeq(acc.allInsertions, LAMBDA ins : ins.filePath = path),
          LAMBDA fileInsertions :
        IF fileInsertions = <<>> THEN acc
        ELSE Const(InsertTestIds(text, fileInsertions), LAMBDA r :
            LET skips == [k \in 1..Len(r.skipped) |->
                             Warning("Skipped", <<>>, r.skipped[k].line,
                                     r.skipped[k].column, r.skipped[k].testId,
                                     r.skipped[k].reason)]
            IN [acc EXCEPT
                   !.fileDiffs = IF r.inserted > 0
                                 THEN Append(@, [filePath |-> path, original |-> text,
                                                 modified |-> r.code])
                                 ELSE @,
                   !.warnings = @ \o skips]))

\* fileExists(filePath) on a disk: a function from paths to <<>> (no file)
\* or <<content>>
FileExists(files, path) == path \in DOMAIN files /\ files[path] # <<>>

\* Lines 91-182: one round of the loop over the file groups.
ProcessFile(acc, path, its, files) ==
    IF ~FileExists(files, path)
    THEN [acc EXCEPT !.warnings = Append(@,
             Warning("Source file not found", path, 0, 0, <<>>, ""))]
    ELSE LET text == files[path][1]
         IN Const(PlanInteractions(acc, AnalyzeReactFile(text), path, its),
                  LAMBDA planned : ApplyToFile(planned, path, text))

RECURSIVE ProcessFiles(_, _, _, _)
ProcessFiles(acc, paths, interactions, files) ==
    IF paths = <<>> THEN acc
    ELSE Const(ProcessFile(acc, Head(paths), GroupOf(interactions, Head(paths)), files),
               LAMBDA next : ProcessFiles(next, Tail(paths), interactions, files))

-----------------------------------------------------------------------------
(* Test generator (generatePlaywrightTest) *)

IsInputOrChange(it) == it.type = "input" \/ it.type = "change"

\* The while loop of lines 69-80: the first index from j on whose event is
\* not an input/change on the selector of the event at i.
RECURSIVE RunEnd(_, _, _)
RunEnd(its, i, j) ==
    IF /\ j <= Len(its)
       /\ IsInputOrChange(its[j])
       /\ its[j].element.cssSelector = its[i].element.cssSelector
    THEN RunEnd(its, i, j + 1)
    ELSE j

\* A consolidation that keeps the first event of a run.
FirstOfRun(its, i, j) == its[i]

\* `last` when the loop ends at j: the event before j.
LastOfRun(its, i, j) == its[j - 1]

\* Lines 88-99: a click right before an input on the same element.
IsFocusClick(its, i) ==
    /\ its[i].type = "click"
    /\ i + 1 <= Len(its)
    /\ its[i + 1].type \in {"input", "click"}
    /\ its[i + 1].element.cssSelector = its[i].element.cssSelector
    /\ its[i + 1].type = "input"

\* The for loop of consolidateInteractions from index i on.
RECURSIVE ConsolidateFrom(_, _)
ConsolidateFrom(its, i) ==
    IF i > Len(its) THEN <<>>
    ELSE IF IsInputOrChange(its[i])
    THEN LET j == RunEnd(its, i, i + 1)
         IN <<LastOfRun(its, i, j)>> \o ConsolidateFrom(its, j)
    ELSE IF IsFocusClick(its, i) THEN ConsolidateFrom(its, i + 1)
    ELSE <<its[i]>> \o ConsolidateFrom(its, i + 1)

ConsolidateInteractions(its) == ConsolidateFrom(its, 1)

\* ---- playwright-templates: a statement is given by what it does (kind),
\* how it finds its element (by, target, name) and the value it carries.

\* escapeSingle(str): backslashes and single quotes get a backslash.
EscapeSingle(str) ==
    CASE str = "O'Neil" -> "O\\'Neil"
      [] OTHER -> str

Statement(kind, by, target, name, value) ==
    [kind |-> kind, by |-> by, target |-> target, name |-> name, value |-> value]

ClickByTestId(id) == Statement("click", "testId", id, "", "")
ClickByRole(role, name) == Statement("click", "role", <<role>>, EscapeSingle(name), "")
ClickByText(text) == Statement("click", "text", <<EscapeSingle(text)>>, "", "")
ClickBySelector(selector) ==
    Statement("click", "locator", <<EscapeSingle(selector)>>, "", "")
FillByTestId(id, value) == Statement("fill", "testId", id, "", EscapeSingle(value))
FillByRole(role, name, value) ==
    Statement("fill", "role", <<role>>, EscapeSingle(name), EscapeSingle(value))
FillByPlaceholder(placeholder, value) ==
    Statement("fill", "placeholder", <<EscapeSingle(placeholder)>>, "",
              EscapeSingle(value))
FillBySelector(selector, value) ==
    Statement("fill", "locator", <<EscapeSingle(selector)>>, "", EscapeSingle(value))
Goto(url) == Statement("goto", "", <<>>, "", EscapeSingle(url))
\* escapeRegex(str): the characters .*+?^${}()|[]\ get a backslash (a "/"
\* does not).
EscapeRegex(str) ==
    CASE str = "/index.html" -> "/index\\.html"
      [] OTHER -> str
ExpectUrlContains(fragment) ==
    Statement("expectUrlContains", "", <<>>, "", EscapeRegex(fragment))
ExpectVisible(id) == Statement("expectVisible", "testId", id, "", "")
WaitForLoadState(state) == Statement("waitForLoadState", "", <<>>, "", state)
KeyboardPress(key) == Statement("press", "", <<>>, "", key)
Comment(text) == Statement("comment", "", <<>>, "", text)
TodoComment(text) == Statement("todo", "", <<>>, "", text)
BlankLine == Statement("blank", "", <<>>, "", "")

\* Map.prototype.get on a map kept as a set of pairs: <<>> for undefined
MapGet(m, k) ==
    IF \E e \in m : e[1] = k THEN <<(CHOOSE e \in m : e[1] = k)[2]>> ELSE <<>>

\* generateAction(interaction, testIdMap): <<>> for null
GenerateAction(it, map) ==
    LET el == it.element
        id == IF el.existingTestId # <<>> THEN el.existingTestId
              ELSE MapGet(map, el.cssSelector)
        elementId == el.attributes.id
        fillValue == IF it.value # "" THEN it.value ELSE el.value
    IN CASE it.type \in {"click", "dblclick"} ->
              IF id # <<>> THEN <<ClickByTestId(id[1])>>
              ELSE IF el.ariaRole # "" /\ el.ariaLabel # ""
              THEN <<ClickByRole(el.ariaRole, el.ariaLabel)>>
              ELSE IF el.textContent # "" THEN <<ClickByText(el.textContent)>>
              ELSE IF el.innerText # "" /\ Len(el.innerText) < 50
              THEN <<ClickByText(el.innerText)>>
              ELSE IF elementId # "" THEN <<ClickBySelector("#" \o elementId)>>
              ELSE <<ClickBySelector(el.cssSelector)>>
         [] it.type \in {"input", "change"} ->
              IF fillValue = "" THEN <<>>
              ELSE IF id # <<>> THEN <<FillByTestId(id[1], fillValue)>>
              ELSE IF el.placeholder # ""
              THEN <<FillByPlaceholder(el.placeholder, fillValue)>>
              ELSE IF el.ariaLabel # ""
              THEN <<FillByRole("textbox", el.ariaLabel, fillValue)>>
              ELSE IF elementId # "" THEN <<FillBySelector("#" \o elementId, fillValue)>>
              ELSE <<FillBySelector(el.cssSelector, fillValue)>>
         [] it.type = "submit" -> <<Comment("Form submitted")>>
         [] it.type = "keydown" ->
              IF it.key \in {"Enter", "Escape", "Tab"} THEN <<KeyboardPress(it.key)>>
              ELSE <<>>
         [] it.type = "navigation" -> <<>>
         [] OTHER -> <<Comment(it.type \o " event on " \o el.tagName)>>

\* ---- URLs: the strings of the model and what new URL(url) makes of them

Origin == "http://localhost:5173"
HomeUrl == "http://localhost:5173/"
LoginUrl == "http://localhost:5173/login"
DashboardUrl == "http://localhost:5173/dashboard"
IndexUrl == "http://localhost:5173/index.html"
ForeignUrl == "http://other.test/help"
BadUrl == "not a url"

\* new URL(url) does not throw
IsValidUrl(url) == url \in {HomeUrl, LoginUrl, DashboardUrl, IndexUrl, ForeignUrl}

\* new URL(url).pathname
Pathname(url) ==
    CASE url = HomeUrl -> "/"
      [] url = LoginUrl -> "/login"
      [] url = DashboardUrl -> "/dashboard"
      [] url = IndexUrl -> "/index.html"
      [] url = ForeignUrl -> "/help"

\* url.startsWith(base)
StartsWith(url, base) ==
    /\ base = Origin
    /\ url \in {HomeUrl, LoginUrl, DashboardUrl, IndexUrl}

\* urlPath.slice(1)
SliceOne(urlPath) ==
    CASE urlPath = "/login" -> "login"
      [] urlPath = "/dashboard" -> "dashboard"
      [] urlPath = "/help" -> "help"
      [] OTHER -> ""

\* ---- generateAssertions

Assertion(stmt, confidence, description) ==
    [code |-> stmt, confidence |-> confidence, description |-> description]

\* The interaction after index i, <<>> for null.
NextOf(its, i) == IF i + 1 <= Len(its) THEN <<its[i + 1]>> ELSE <<>>

\* generateAssertions(interactions, index) throws: a new URL(...) of lines
\* 27, 37 and 55 is given a string that is not a URL.
AssertionsThrow(its, i) ==
    LET current == its[i]
        next == NextOf(its, i)
    IN \/ /\ current.type = "click"
          /\ next # <<>> /\ next[1].type = "navigation"
          /\ ~IsValidUrl(next[1].url)
       \/ /\ current.type = "navigation"
          /\ ~IsValidUrl(current.url)
       \/ /\ current.type = "submit"
          /\ next # <<>> /\ next[1].url # current.url
          /\ ~IsValidUrl(next[1].url)

\* generateAssertions(interactions, index) when it does not throw
GenerateAssertions(its, i) ==
    LET current == its[i]
        next == NextOf(its, i)
    IN (IF current.type = "click" /\ next # <<>> /\ next[1].type = "navigation"
        THEN <<Assertion(ExpectUrlContains(Pathname(next[1].url)), "high",
                         "Verify navigation to " \o Pathname(next[1].url)
                             \o " after click")>>
        ELSE <<>>) \o
       (IF current.type = "navigation"
        THEN <<Assertion(ExpectUrlContains(Pathname(current.url)), "high",
                         "Verify URL contains " \o Pathname(current.url))>>
        ELSE <<>>) \o
       (IF current.type = "submit"
        THEN <<Assertion(WaitForLoadState("networkidle"), "high",
                         "Wait for form submission to complete")>> \o
             (IF next # <<>> /\ next[1].url # current.url
              THEN <<Assertion(ExpectUrlContains(Pathname(next[1].url)),
                               "high",
                               "Verify redirect after form submission to "
                                   \o Pathname(next[1].url))>>
              ELSE <<>>)
        ELSE <<>>) \o
       (IF /\ current.type = "click"
           /\ next # <<>> /\ next[1].type # "navigation"
           /\ next[1].element.existingTestId # <<>>
        THEN <<Assertion(ExpectVisible(next[1].element.existingTestId[1]), "medium",
                         "Verify element becomes visible after click")>>
        ELSE <<>>) \o
       (IF current.type = "input" /\ current.value # ""
        THEN <<Assertion(TodoComment("Verify input value is '" \o current.value \o "'"),
                         "low", "Input value assertion (needs manual review)")>>
        ELSE <<>>)

\* ---- generateTestBody

\* Lines 218-224: the code of a high assertion, a TODO comment for a medium
\* one, nothing for any other.
RenderAssertion(a) ==
    IF a.confidence = "high" THEN <<a.code>>
    ELSE IF a.confidence = "medium" THEN <<TodoComment(a.description)>>
    ELSE <<>>

RECURSIVE RenderAssertions(_)
RenderAssertions(as) ==
    IF as = <<>> THEN <<>>
    ELSE RenderAssertion(Head(as)) \o RenderAssertions(Tail(as))

\* Lines 183-208: the lines a navigation, or the first interaction when it
\* has a URL, adds, on st = [lines, currentUrl, threw].
BodyNavigation(st, it, i, config) ==
    LET url == it.url
        gotoUrl == IF IsValidUrl(url) /\ StartsWith(url, config.playwright.baseURL)
                   THEN Pathname(url) ELSE url
        heading == IF IsValidUrl(url) /\ it.type = "navigation" /\ i > 1
                   THEN <<BlankLine, Comment("Navigate to " \o Pathname(url))>>
                   ELSE <<>>
        first == IF i = 1 THEN <<Goto(gotoUrl), BlankLine>> ELSE <<>>
    IN IF url # st.currentUrl
       THEN [st EXCEPT !.lines = @ \o heading \o first, !.currentUrl = url]
       ELSE st

\* Lines 210-224: the action line and the assertions of interaction i.
BodyAction(st, its, i, map) ==
    IF AssertionsThrow(its, i)
    THEN [st EXCEPT !.lines = @ \o GenerateAction(its[i], map), !.threw = TRUE]
    ELSE [st EXCEPT !.lines = @ \o GenerateAction(its[i], map)
                                  \o RenderAssertions(GenerateAssertions(its, i))]

\* One round of the for loop of generateTestBody (i counted from 1).
BodyStep(st, its, i, config, map) ==
    LET it == its[i]
        afterNav == IF it.type = "navigation" \/ (i = 1 /\ it.url # "")
                    THEN BodyNavigation(st, it, i, config) ELSE st
    IN IF it.type = "navigation" THEN afterNav
       ELSE BodyAction(afterNav, its, i, map)

RECURSIVE BodyFrom(_, _, _, _, _)
BodyFrom(st, its, i, config, map) ==
    IF i > Len(its) \/ st.threw THEN st
    ELSE Const(BodyStep(st, its, i, config, map),
               LAMBDA next : BodyFrom(next, its, i + 1, config, map))

\* generateTestBody(interactions, config, testIdMap): [lines, currentUrl, threw]
GenerateTestBody(its, config, map) ==
    BodyFrom([lines |-> <<>>, currentUrl |-> "", threw |-> FALSE], its, 1, config, map)

\* ---- path: segment sequences; a relative path may begin with ".."

\* path.normalize on the segments of an absolute path
RECURSIVE Normalize(_, _)
Normalize(done, rest) ==
    IF rest = <<>> THEN done
    ELSE IF Head(rest) = ".."
    THEN Normalize(IF done = <<>> THEN <<>> ELSE SubSeq(done, 1, Len(done) - 1),
                   Tail(rest))
    ELSE Normalize(Append(done, Head(rest)), Tail(rest))

\* path.join(a, b) for an absolute a
Join(a, b) == Normalize(<<>>, a \o b)

\* Length of the longest common prefix of two paths.
RECURSIVE CommonPrefix(_, _)
CommonPrefix(a, b) ==
    IF a = <<>> \/ b = <<>> \/ Head(a) # Head(b) THEN 0
    ELSE 1 + CommonPrefix(Tail(a), Tail(b))

\* path.relative(from, to) for absolute paths
Relative(from, to) ==
    LET k == CommonPrefix(from, to)
    IN [i \in 1..(Len(from) - k) |-> ".."] \o SubSeq(to, k + 1, Len(to))

\* A file path of a generated test: absolute, or relative to the project root.
FilePath(absolute, segments) == [absolute |-> absolute, segments |-> segments]

\* parsed.name in kebab-case and lower case, with `.spec.ts`
SpecFileName(base) ==
    CASE base = "A.tsx" -> "a.spec.ts"
      [] base = "B.tsx" -> "b.spec.ts"
      [] base = "LoginPage.tsx" -> "login-page.spec.ts"
      [] OTHER -> base \o ".spec.ts"

\* resolveTestFilePath(sourceFilePath, projectRoot, sourceDir, testOutputDir)
ResolveTestFilePath(sourceFilePath, projectRoot, sourceDir, testOutputDir) ==
    LET relative == Relative(Join(projectRoot, sourceDir), sourceFilePath)
        dir == SubSeq(relative, 1, Len(relative) - 1)
    IN Join(Join(projectRoot, testOutputDir),
            dir \o <<SpecFileName(relative[Len(relative)])>>)

\* sanitizeName(name)
SanitizeName(name) ==
    CASE name = "Login Flow!" -> "login-flow"
      [] name = "home page" -> "home-page"
      [] name = "interact with /dashboard" -> "interact-with-dashboard"
      [] name = "interact with /login" -> "interact-with-login"
      [] name = "interact with /" -> "interact-with-"
      [] name = "interact with /help" -> "interact-with-help"
      [] name = "dashboard page" -> "dashboard-page"
      [] name = "login page" -> "login-page"
      [] name = "help page" -> "help-page"
      [] name = "main page" -> "main-page"
      [] OTHER -> name

\* ---- groupInteractions

Group(description, baseUrl, its, sourceFile) ==
    [description |-> description, baseUrl |-> baseUrl, interactions |-> its,
     sourceFile |-> sourceFile]

\* A round that opens the new group without the navigation that opens it.
GroupStepWithoutNavigation(st, it) ==
    LET opens == it.type = "navigation" /\ it.url # st.current.baseUrl
    IN IF opens /\ ~IsValidUrl(it.url) THEN [st EXCEPT !.threw = TRUE]
       ELSE IF opens
       THEN [groups |-> IF st.current.interactions # <<>>
                        THEN Append(st.groups, st.current) ELSE st.groups,
             current |-> Group("interact with " \o Pathname(it.url), it.url, <<>>,
                               it.element.attributes.dataSource),
             threw |-> FALSE]
       ELSE [st EXCEPT !.current.interactions = Append(@, it)]

\* One round of the loop of lines 307-332 on st = [groups, current, threw].
GroupStep(st, it) ==
    LET opens == it.type = "navigation" /\ it.url # st.current.baseUrl
        groups == IF opens /\ st.current.interactions # <<>>
                  THEN Append(st.groups, st.current) ELSE st.groups
        opened == IF opens
                  THEN Group("interact with " \o Pathname(it.url), it.url, <<>>,
                             it.element.attributes.dataSource)
                  ELSE st.current
        tracked == IF /\ it.source # <<>>
                      /\ it.source[1].filePath # <<>>
                      /\ opened.sourceFile = <<>>
                   THEN [opened EXCEPT !.sourceFile = <<it.source[1].filePath>>]
                   ELSE opened
    IN IF opens /\ ~IsValidUrl(it.url)
       THEN [st EXCEPT !.groups = groups, !.threw = TRUE]
       ELSE [groups |-> groups,
             current |-> [tracked EXCEPT !.interactions = Append(@, it)],
             threw |-> FALSE]

RECURSIVE GroupLoop(_, _)
GroupLoop(st, its) ==
    IF its = <<>> \/ st.threw THEN st
    ELSE Const(GroupStep(st, Head(its)), LAMBDA next : GroupLoop(next, Tail(its)))

\* A description of the first group that keeps the "/" of the path.
FirstDescriptionWithSlash(baseUrl) ==
    IF ~IsValidUrl(baseUrl) THEN "main page"
    ELSE IF Pathname(baseUrl) = "/" THEN "home page"
    ELSE Pathname(baseUrl) \o " page"

\* Lines 339-346: the description of the first group.
FirstDescription(baseUrl) ==
    IF ~IsValidUrl(baseUrl) THEN "main page"
    ELSE IF Pathname(baseUrl) = "/" THEN "home page"
    ELSE SliceOne(Pathname(baseUrl)) \o " page"

\* groupInteractions(interactions): [threw, groups]
GroupInteractions(its) ==
    IF its = <<>> THEN [threw |-> FALSE, groups |-> <<>>]
    ELSE Const(GroupLoop([groups |-> <<>>,
                          current |-> Group("initial flow", its[1].url, <<>>, <<>>),
                          threw |-> FALSE], its), LAMBDA st :
         IF st.threw THEN [threw |-> TRUE, groups |-> <<>>]
         ELSE Const(IF st.current.interactions # <<>>
                    THEN Append(st.groups, st.current) ELSE st.groups, LAMBDA all :
              [threw |-> FALSE,
               groups |-> [k \in 1..Len(all) |->
                              IF k = 1
                              THEN [all[k] EXCEPT !.description =
                                       FirstDescription(all[k].baseUrl)]
                              ELSE all[k]]]))

\* ---- test files

\* formatTestFile on the lines of a body: of two or more blank lines in a
\* row one is kept.
RECURSIVE CollapseBlankLines(_)
CollapseBlankLines(lines) ==
    IF Len(lines) < 2 THEN lines
    ELSE IF lines[1] = BlankLine /\ lines[2] = BlankLine
    THEN CollapseBlankLines(Tail(lines))
    ELSE <<Head(lines)>> \o CollapseBlankLines(Tail(lines))

\* The path of the test file of a source file, or of a name.
TestPath(sourceFile, name, config) ==
    IF sourceFile # <<>>
    THEN FilePath(TRUE, ResolveTestFilePath(sourceFile[1], config.projectRoot,
                                             config.sourceDir, config.testOutputDir))
    ELSE FilePath(FALSE, config.testOutputDir \o <<SanitizeName(name) \o ".spec.ts">>)

\* A GeneratedTestFile: the content is given by the name of the describe
\* block, the title of the test and the lines of its body.
GeneratedTestFile(path, describe, title, lines, description) ==
    [filePath |-> path,
     content |-> [describe |-> describe, testCase |-> title,
                  body |-> CollapseBlankLines(lines)],
     description |-> description]

RECURSIVE FlatMap(_)
FlatMap(groups) ==
    IF groups = <<>> THEN <<>>
    ELSE Head(groups).interactions \o FlatMap(Tail(groups))

\* generateSingleTestFile(session, groups, config, testIdMap): [threw, files]
GenerateSingleTestFile(s, groups, config, map) ==
    Const(FlatMap(groups), LAMBDA allInteractions :
        IF allInteractions = <<>> THEN [threw |-> FALSE, files |-> <<>>]
        ELSE Const(GenerateTestBody(allInteractions, config, map), LAMBDA body :
            IF body.threw THEN [threw |-> TRUE, files |-> <<>>]
            ELSE [threw |-> FALSE,
                  files |-> <<GeneratedTestFile(
                      TestPath(groups[1].sourceFile, s.name, config),
                      s.name,
                      "should complete " \o s.name \o " flow",
                      body.lines,
                      "E2E test for " \o s.name \o " ("
                          \o ToString(Len(allInteractions)) \o " interactions)")>>]))

\* generateGroupTestFile(session, group, config, testIdMap): [threw, files]
GenerateGroupTestFile(s, group, config, map) ==
    IF group.interactions = <<>> THEN [threw |-> FALSE, files |-> <<>>]
    ELSE Const(GenerateTestBody(group.interactions, config, map), LAMBDA body :
        IF body.threw THEN [threw |-> TRUE, files |-> <<>>]
        ELSE [threw |-> FALSE,
              files |-> <<GeneratedTestFile(
                  TestPath(group.sourceFile, group.description, config),
                  s.name,
                  "should " \o group.description,
                  body.lines,
                  "E2E test for " \o group.description)>>])

RECURSIVE GenerateGroupTestFiles(_, _, _, _)
GenerateGroupTestFiles(s, groups, config, map) ==
    IF groups = <<>> THEN [threw |-> FALSE, files |-> <<>>]
    ELSE Const(GenerateGroupTestFile(s, Head(groups), config, map), LAMBDA file :
         Const(GenerateGroupTestFiles(s, Tail(groups), config, map), LAMBDA rest :
             IF file.threw \/ rest.threw THEN [threw |-> TRUE, files |-> <<>>]
             ELSE [threw |-> FALSE, files |-> file.files \o rest.files]))

\* The test that chooses between one file and a file per group.
OneFile(groups) ==
    Cardinality({groups[k].sourceFile : k \in 1..Len(groups)} \ {<<>>}) <= 1

\* generatePlaywrightTest(session, config, testIdMap): [threw, files]
GeneratePlaywrightTest(s, config, map) ==
    Const(ConsolidateInteractions(s.interactions), LAMBDA consolidatedList :
    Const(GroupInteractions(consolidatedList), LAMBDA grouped :
        IF grouped.threw THEN [threw |-> TRUE, files |-> <<>>]
        ELSE IF grouped.groups = <<>> THEN [threw |-> FALSE, files |-> <<>>]
        ELSE IF OneFile(grouped.groups)
        THEN GenerateSingleTestFile(s, grouped.groups, config, map)
        ELSE GenerateGroupTestFiles(s, grouped.groups, config, map)))

\* DEFAULT_CONFIG with a project root
DefaultConfig(projectRoot) ==
    [projectRoot |-> projectRoot,
     testOutputDir |-> <<"tests", "e2e">>,
     sourceDir |-> <<"src">>,
     namingStrategy |-> [type |-> "component-action"],
     backupBeforeModify |-> TRUE,
     playwright |-> [baseURL |-> Origin]]

\* ---- file-utils

BACKUP_DIR == ".qa-backup"

\* A directory exists: the root, or a directory some file is in.
DirExists(files, dir) ==
    \/ dir = <<>>
    \/ \E p \in DOMAIN files :
           /\ files[p] # <<>>
           /\ Len(p) > Len(dir)
           /\ SubSeq(p, 1, Len(dir)) = dir

\* fs.writeFileSync(filePath, content)
WriteFile(files, path, content) ==
    [q \in DOMAIN files \cup {path} |-> IF q = path THEN <<content>> ELSE files[q]]

\* writeSourceFile(filePath, content): the directory is made if missing
WriteSourceFile(files, path, content) == WriteFile(files, path, content)

\* fs.copyFileSync(src, dest): [threw, files]; it throws when src is missing
\* or the directory of dest is, and leaves a file copied onto itself alone.
CopyFileSync(files, src, dest) ==
    IF \/ ~FileExists(files, src)
       \/ ~DirExists(files, SubSeq(dest, 1, Len(dest) - 1))
    THEN [threw |-> TRUE, files |-> files]
    ELSE [threw |-> FALSE, files |-> WriteFile(files, dest, files[src][1])]

\* The path backupFile copies filePath to.
BackupPath(filePath, projectRoot) ==
    Join(projectRoot \o <<BACKUP_DIR>>, Relative(projectRoot, filePath))

\* backupFile(filePath, projectRoot): [threw, files, backupPath]; the
\* directory of the backup is made if missing.
BackupFile(files, filePath, projectRoot) ==
    LET backupPath == BackupPath(filePath, projectRoot)
    IN IF ~FileExists(files, filePath)
       THEN [threw |-> TRUE, files |-> files, backupPath |-> backupPath]
       ELSE [threw |-> FALSE,
             files |-> WriteFile(files, backupPath, files[filePath][1]),
             backupPath |-> backupPath]

\* restoreFromBackup(backupPath, projectRoot): [threw, files, originalPath]
RestoreFromBackup(files, backupPath, projectRoot) ==
    LET relative == Relative(Join(projectRoot, <<BACKUP_DIR>>), backupPath)
        originalPath == Join(projectRoot, relative)
        copy == CopyFileSync(files, backupPath, originalPath)
    IN [threw |-> copy.threw, files |-> copy.files, originalPath |-> originalPath]

\* ---- resolveConfig

\* extractPort(url): "" stands for null
ExtractPort(url) ==
    IF url \in {HomeUrl, LoginUrl, DashboardUrl, IndexUrl} THEN "5173" ELSE ""

\* resolveConfig(session) for this.config = config and what detectAppRoot
\* finds
ResolveConfig(s, config, detected) ==
    LET url == IF s.startUrl # "" THEN s.startUrl
               ELSE IF s.interactions # <<>> THEN s.interactions[1].url ELSE ""
    IN IF url = "" \/ ExtractPort(url) = "" \/ detected = <<>> THEN config
       ELSE [config EXCEPT !.projectRoot = detected[1],
                           !.playwright.baseURL = "http://localhost:" \o ExtractPort(url)]

\* ---- applyResult and rollback

\* The absolute path of a generated test.
TestFileAbsPath(test, projectRoot) ==
    IF test.filePath.absolute THEN test.filePath.segments
    ELSE Join(projectRoot, test.filePath.segments)

\* Lines 243-254: the loop that writes the generated tests, on
\* st = [files, applied].
RECURSIVE WriteTests(_, _, _)
WriteTests(st, tests, projectRoot) ==
    IF tests = <<>> THEN st
    ELSE LET absPath == TestFileAbsPath(Head(tests), projectRoot)
         IN WriteTests([files |-> WriteSourceFile(st.files, absPath, Head(tests).content),
                        applied |-> Append(st.applied, absPath)],
                       Tail(tests), projectRoot)

\* Lines 266-273: the loop of rollback, on st = [files, restored, errors].
RECURSIVE RestoreAll(_, _, _)
RestoreAll(st, backupPaths, projectRoot) ==
    IF backupPaths = <<>> THEN st
    ELSE LET r == RestoreFromBackup(st.files, Head(backupPaths), projectRoot)
         IN RestoreAll(IF r.threw
                       THEN [st EXCEPT !.errors = Append(@, Head(backupPaths))]
                       ELSE [files |-> r.files,
                             restored |-> Append(st.restored, r.originalPath),
                             errors |-> st.errors],
                       Tail(backupPaths), projectRoot)

\* ---- processSession

\* processSession(session) under the configuration resolveConfig gives it:
\* the plan, the diffs, the generated tests, the errors and the warnings of
\* the ProcessingResult.
ProcessSession(s, files, config) ==
    LET paths == GroupKeys(s.interactions, {})
        start == [warnings |-> IF paths = <<>>
                               THEN <<Warning("No source file locations found",
                                              <<>>, 0, 0, <<>>, "")>>
                               ELSE <<>>,
                  errors |-> <<>>,
                  fileDiffs |-> <<>>,
                  testIdMap |-> {},
                  allInsertions |-> <<>>,
                  existingIds |-> {}]
    IN Const(ProcessFiles(start, paths, s.interactions, files), LAMBDA acc :
       Const(GeneratePlaywrightTest(s, config, acc.testIdMap), LAMBDA tests :
           LET generated == IF tests.threw THEN <<>> ELSE tests.files
               errors == IF tests.threw
                         THEN Append(acc.errors, "Error generating tests")
                         ELSE acc.errors
           IN [testIdPlan |->
                   [insertions |-> acc.allInsertions,
                    skipped |-> SelectSeq(acc.warnings, LAMBDA w :
                                   w.message \in {"Skipped",
                                                  "No source location for interaction",
                                                  "No source file locations found"})],
               fileDiffs |-> acc.fileDiffs,
               testIdMap |-> acc.testIdMap,
               generatedTests |-> generated,
               backupPaths |-> <<>>,
               errors |-> IF generated = <<>> /\ errors = <<>>
                          THEN <<"No tests could be generated from the session interactions">>
                          ELSE errors,
               warnings |-> acc.warnings]))

\* A RecordingSession
RecordingSession(name, startUrl, its) ==
    [name |-> name, startUrl |-> startUrl, interactions |-> its]

\* The project root of the configuration the agent is constructed with.
ProjectRoot == <<"app">>

-----------------------------------------------------------------------------
(* Inputs *)

\* Index entries for the resolver: tags on lines 4, 5 and 6, two places on
\* line 5 and on line 6.
ResolverPositions == << <<4, 4>>, <<5, 6>>, <<5, 20>>, <<6, 4>>, <<6, 8>> >>
ResolverKinds == {<<"button", <<>>>>, <<"input", <<TestIdAttr(<<"a">>)>>>>}
QueryLines == {3, 4, 5, 6, 10}
QueryColumns == {0, 6, 999}

\* Candidates and sets for makeUnique.
Candidates == {<<"x">>, <<"y">>, <<"x", "2">>}
UsedIds ==
    {<<"x">>, <<"y">>, <<"x", "2", "2">>} \cup {Suffixed(<<"x">>, k) : k \in 2..MaxSuffix}

\* Texts for insertTestIds: two places on line 1, one on line 2.
InsertPositions == << <<1, 0>>, <<1, 4>>, <<2, 4>> >>
InsertKinds ==
    {<<"button", <<>>>>, <<"input", <<>>>>, <<"button", <<TestIdAttr(<<"a">>)>>>>}
InsertTexts == TextsOver(InsertPositions, InsertKinds)

\* Edits for insertTestIds: at the places of the text (column 0 stands for
\* any column of the line) and at the column the second tag of line 1 has
\* once a one-letter identifier was inserted into the first.
EditPositions == {<<1, 0>>, <<1, 4>>, <<2, 4>>, <<1, 20>>}
EditIds == {<<"a">>, <<"b">>}
EditTags == {"button", "Button", "*"}
Edits ==
    {Insertion("test.tsx", p[1], p[2], id, tag) :
        p \in EditPositions, id \in EditIds, tag \in EditTags}

\* Texts with one tag and every attribute list of up to three attributes.
AttrTexts ==
    {<<Element(1, 4, "button", attrs)>> :
        attrs \in SeqsUpTo({SpreadAttr, ClassNameAttr, OnClickAttr, DynamicTestIdAttr}, 3)}
AttrEdits ==
    {Insertion("test.tsx", 1, c, <<"b">>, "button") : c \in {0, 4}}

-----------------------------------------------------------------------------
(* State machine *)

IdleResolver ==
    /\ jsxElements = <<>> /\ line = 0 /\ column = 0 /\ found = <<>>

IdleNaming ==
    /\ testId = <<>> /\ existingIds = {} /\ unique = <<>>
    /\ argStrategy = <<>> /\ argElement = <<>> /\ argSource = <<>> /\ argAction = ""

IdleInserter ==
    /\ code = <<>> /\ insertions = <<>> /\ ast = <<>> /\ existingTestIds = {}
    /\ sorted = <<>> /\ idx = 0 /\ inserted = 0 /\ skipped = <<>>
    /\ resultCode = <<>> /\ pass = 0

IdleApply ==
    /\ detectedRoot = <<>> /\ applyConfig = <<>> /\ diffIdx = 0
    /\ applied = <<>> /\ applyErrors = <<>> /\ restored = <<>>
    /\ rollbackErrors = <<>> /\ preApply = <<>>

IdleProcess ==
    /\ session = <<>> /\ disk = <<>> /\ result = <<>> /\ IdleApply

IdleLifecycle ==
    /\ sessions = <<>> /\ inFlight = <<>>

IdleGenerator ==
    /\ rawInteractions = <<>> /\ consolidated = <<>> /\ argInteraction = <<>>
    /\ testIdMap = {} /\ actionLine = <<>> /\ generatedTests = <<>>
    /\ flowGroups = <<>>

\* ---- findJSXElementAtPosition

InitResolver ==
    /\ pc = "call"
    /\ jsxElements \in {AnalyzeReactFile(t) : t \in TextsOver(ResolverPositions, ResolverKinds)}
    /\ line \in QueryLines
    /\ column \in QueryColumns
    /\ found = <<>>
    /\ IdleNaming /\ IdleInserter /\ IdleProcess /\ IdleGenerator /\ IdleLifecycle

FindCall ==
    /\ pc = "call"
    /\ found' = FindJSXElementAtPosition(jsxElements, line, column)
    /\ pc' = "return"
    /\ UNCHANGED <<jsxElements, line, column, namingVars, inserterVars, processVars,
                   generatorVars,
                   lifecycleVars>>

SpecResolver == InitResolver /\ [][FindCall]_vars

\* ---- makeUnique

InitNaming ==
    /\ pc = "call"
    /\ testId \in Candidates
    /\ existingIds \in SUBSET UsedIds
    /\ unique = <<>>
    /\ argStrategy = <<>> /\ argElement = <<>> /\ argSource = <<>> /\ argAction = ""
    /\ IdleResolver /\ IdleInserter /\ IdleProcess /\ IdleGenerator /\ IdleLifecycle

MakeUniqueCall ==
    /\ pc = "call"
    /\ unique' = <<MakeUnique(testId, existingIds)>>
    /\ pc' = "return"
    /\ UNCHANGED <<testId, existingIds, argStrategy, argElement, argSource, argAction,
                   resolverVars, inserterVars, processVars, generatorVars,
                   lifecycleVars>>

SpecNaming == InitNaming /\ [][MakeUniqueCall]_vars

\* ---- insertTestIds

InitInserterWith(texts, edits) ==
    /\ pc = "call"
    /\ code \in texts
    /\ insertions \in SeqsUpTo(edits, MaxEdits)
    /\ ast = <<>> /\ existingTestIds = {} /\ sorted = <<>> /\ idx = 0
    /\ inserted = 0 /\ skipped = <<>> /\ resultCode = <<>>
    /\ pass = 1
    /\ IdleResolver /\ IdleNaming /\ IdleProcess /\ IdleGenerator /\ IdleLifecycle

InitInserter == InitInserterWith(InsertTexts, Edits)

\* Lines 22-45: parse, collect the identifiers of the file, sort the Edits.
InsertBegin ==
    /\ pc = "call"
    /\ ast' = InsertStart(code).ast
    /\ existingTestIds' = InsertStart(code).existingTestIds
    /\ inserted' = 0
    /\ skipped' = <<>>
    /\ sorted' = SortInsertions(insertions)
    /\ idx' = 1
    /\ pc' = "loop"
    /\ UNCHANGED <<code, insertions, resultCode, pass, resolverVars, namingVars,
                   processVars, generatorVars,
                   lifecycleVars>>

\* Lines 47-66: one iteration of the loop.
InsertNext ==
    /\ pc = "loop"
    /\ idx <= Len(sorted)
    /\ LET st == InsertOne([ast |-> ast, existingTestIds |-> existingTestIds,
                            inserted |-> inserted, skipped |-> skipped],
                           sorted[idx])
       IN /\ ast' = st.ast
          /\ existingTestIds' = st.existingTestIds
          /\ inserted' = st.inserted
          /\ skipped' = st.skipped
    /\ idx' = idx + 1
    /\ UNCHANGED <<pc, code, insertions, sorted, resultCode, pass,
                   resolverVars, namingVars, processVars,
                   generatorVars,
                   lifecycleVars>>

\* Lines 68-69: print and return.
InsertEnd ==
    /\ pc = "loop"
    /\ idx > Len(sorted)
    /\ resultCode' = PrintSource(ast)
    /\ pc' = "return"
    /\ UNCHANGED <<code, insertions, ast, existingTestIds, sorted, idx, inserted,
                   skipped, pass, resolverVars, namingVars, processVars,
                   generatorVars,
                   lifecycleVars>>

NextInserter == InsertBegin \/ InsertNext \/ InsertEnd

SpecInserter == InitInserter /\ [][NextInserter]_vars

\* The same executor on one tag with every attribute list.
InitAttrs == InitInserterWith(AttrTexts, AttrEdits)

SpecAttrs == InitAttrs /\ [][NextInserter]_vars

\* The caller applies the same plan to the text it got back.
Reapply ==
    /\ pc = "return"
    /\ pass = 1
    /\ code' = resultCode
    /\ pass' = 2
    /\ ast' = <<>> /\ existingTestIds' = {} /\ sorted' = <<>> /\ idx' = 0
    /\ inserted' = 0 /\ skipped' = <<>> /\ resultCode' = <<>>
    /\ pc' = "call"
    /\ UNCHANGED <<insertions, resolverVars, namingVars, processVars,
                   generatorVars,
                   lifecycleVars>>

NextReapply == NextInserter \/ Reapply

\* Texts of buttons only, with and without an identifier.
ReapplyTexts ==
    TextsOver(InsertPositions,
              {<<"button", <<>>>>, <<"button", <<TestIdAttr(<<"a">>)>>>>})

InitReapply == InitInserterWith(ReapplyTexts, Edits)

SpecReapply == InitReapply /\ [][NextReapply]_vars

\* ---- processSession

\* Source files: A has up to two buttons on line 1, plain or carrying the
\* identifier a click on them would be given; B has one button or is missing.
PathA == <<"app", "src", "A.tsx">>
PathB == <<"app", "src", "B.tsx">>
ClickId == <<"login", "page", "click", "button">>
ProcessKinds == {<<"button", <<>>>>, <<"button", <<TestIdAttr(ClickId)>>>>}
ProcessPositions == << <<1, 0>>, <<1, 4>> >>
ProcessTexts == TextsOver(ProcessPositions, ProcessKinds)
Disks ==
    {[p \in {PathA, PathB} |-> IF p = PathA THEN <<a>> ELSE b] :
        a \in ProcessTexts, b \in {<<>>, <<<<Element(1, 4, "button", <<>>)>>>>}}

\* Anchors: none; in A at the two places, at another column of line 1, at
\* line 3 (no tag there: the nearest line is taken) and at line 0 (line
\* unknown); in B at its tag.
Anchors ==
    {<<>>} \cup
    {<<SourceLocation(PathA, p[1], p[2], "LoginPage")>> :
        p \in {<<1, 0>>, <<1, 4>>, <<1, 8>>, <<3, 4>>, <<0, 0>>}} \cup
    {<<SourceLocation(PathB, 1, 4, "LoginPage")>>}
Interactions ==
    {Interaction(type, "button", selector, anchor) :
        type \in {"click", "input"}, selector \in {"#s1", "#s2"}, anchor \in Anchors}

InitProcess ==
    /\ pc = "call"
    /\ session \in {RecordingSession("Login Flow!", "", its) :
                       its \in SeqsUpTo(Interactions, MaxInteractions)}
    /\ disk \in Disks
    /\ result = <<>>
    /\ IdleApply
    /\ IdleResolver /\ IdleNaming /\ IdleInserter /\ IdleGenerator /\ IdleLifecycle

\* A processSession that writes the modified files at once.
ProcessSessionCallWriting ==
    /\ pc = "call"
    /\ LET r == ProcessSession(session, disk,
                               ResolveConfig(session, DefaultConfig(ProjectRoot),
                                             detectedRoot))
           Changed(q) == {k \in 1..Len(r.fileDiffs) : r.fileDiffs[k].filePath = q}
       IN /\ result' = <<r>>
          /\ disk' = [q \in DOMAIN disk |->
                         IF Changed(q) # {}
                         THEN <<r.fileDiffs[CHOOSE k \in Changed(q) : TRUE].modified>>
                         ELSE disk[q]]
    /\ pc' = "return"
    /\ UNCHANGED <<session, applyVars, resolverVars, namingVars, inserterVars,
                   generatorVars,
                   lifecycleVars>>

ProcessSessionCall ==
    /\ pc = "call"
    /\ result' = <<ProcessSession(session, disk,
                                   ResolveConfig(session, DefaultConfig(ProjectRoot),
                                                 detectedRoot))>>
    /\ pc' = "return"
    /\ UNCHANGED <<session, disk, applyVars, resolverVars, namingVars, inserterVars,
                   generatorVars,
                   lifecycleVars>>

SpecProcess == InitProcess /\ [][ProcessSessionCall]_vars

\* ---- generateTestId

\* Elements: a button or an input with or without an input type, a visible
\* text, an inner text, a type attribute and a label.
NamedElements ==
    {[ElementInfo(tag, "#el") EXCEPT
          !.inputType = inputType, !.textContent = text, !.innerText = inner,
          !.attributes.type = attrType, !.ariaLabel = label] :
        tag \in {"button", "input"},
        inputType \in {"", "email", "submit", "text"},
        text \in {"", "Save Changes", "Close and Save", "Hello"},
        inner \in {"", "Reopen"},
        attrType \in {"", "submit"},
        label \in {"", "Close dialog"}}

InitGenerateId ==
    /\ pc = "call"
    /\ argStrategy \in {[type |-> t] : t \in {"component-action", "hierarchical", "descriptive"}}
    /\ argElement \in NamedElements
    /\ argSource \in {<<>>, <<SourceLocation(<<"app", "src", "A.tsx">>, 1, 4, "LoginForm")>>,
                      <<SourceLocation(<<"app", "src", "A.tsx">>, 1, 4, "")>>}
    /\ argAction \in {"", "submit", "click"}
    /\ testId = <<>> /\ existingIds = {} /\ unique = <<>>
    /\ IdleResolver /\ IdleInserter /\ IdleProcess /\ IdleGenerator /\ IdleLifecycle

GenerateTestIdCall ==
    /\ pc = "call"
    /\ testId' = GenerateTestId(argStrategy, argElement, argSource, argAction)
    /\ pc' = "return"
    /\ UNCHANGED <<existingIds, unique, argStrategy, argElement, argSource, argAction,
                   resolverVars, inserterVars, processVars, generatorVars,
                   lifecycleVars>>

SpecGenerateId == InitGenerateId /\ [][GenerateTestIdCall]_vars

\* ---- consolidateInteractions

\* Events on two elements: clicks, inputs and changes with one of two values,
\* and navigations.
EventSelectors == {"#email", "#submit"}
Events ==
    {InteractionData(type, "", ElementInfo("input", sel), <<>>, value, "") :
        type \in {"input", "change"}, sel \in EventSelectors, value \in {"a", "ab"}} \cup
    {InteractionData("click", "", ElementInfo("input", sel), <<>>, "", "") :
        sel \in EventSelectors} \cup
    {InteractionData("navigation", "", ElementInfo("window", ""), <<>>, "", "")}

InitConsolidate ==
    /\ pc = "call"
    /\ rawInteractions \in SeqsUpTo(Events, MaxEvents)
    /\ consolidated = <<>> /\ argInteraction = <<>> /\ testIdMap = {}
    /\ actionLine = <<>> /\ generatedTests = <<>> /\ flowGroups = <<>>
    /\ IdleResolver /\ IdleNaming /\ IdleInserter /\ IdleProcess /\ IdleLifecycle

ConsolidateCall ==
    /\ pc = "call"
    /\ consolidated' = ConsolidateInteractions(rawInteractions)
    /\ pc' = "return"
    /\ UNCHANGED <<rawInteractions, argInteraction, testIdMap, actionLine,
                   generatedTests, flowGroups, resolverVars, namingVars, inserterVars,
                   processVars,
                   lifecycleVars>>

SpecConsolidate == InitConsolidate /\ [][ConsolidateCall]_vars

\* ---- generateAction

\* A text of 60 characters.
LongText == "Please read all of the following terms before you continue."

\* Elements with or without an identifier of their own, a role, a label, a
\* direct text, an inner text, an id attribute, a placeholder and a value.
ActionElements ==
    {[ElementInfo("button", "#el") EXCEPT
          !.existingTestId = existing, !.ariaRole = role, !.ariaLabel = label,
          !.textContent = text, !.innerText = inner,
          !.attributes.id = idAttr,
          !.placeholder = placeholder, !.value = value] :
        existing \in {<<>>, <<<<"e">>>>},
        role \in {"", "button"},
        label \in {"", "Close dialog"},
        text \in {"", "Hello", LongText},
        inner \in {"", "Reopen", LongText},
        idAttr \in {"", "main"},
        placeholder \in {"", "Email"},
        value \in {"", "typed"}}

ActionInteractions ==
    {InteractionData(type, "", el, <<>>, value, "") :
        type \in {"click", "dblclick", "input", "change", "submit", "navigation",
                  "hover"},
        el \in ActionElements, value \in {"", "O'Neil"}} \cup
    {InteractionData("keydown", "", ElementInfo("input", "#el"), <<>>, "", key) :
        key \in {"Enter", "Escape", "Tab", "a"}}

InitAction ==
    /\ pc = "call"
    /\ argInteraction \in ActionInteractions
    /\ testIdMap \in {{}, {<<"#el", <<"m">>>>}, {<<"#other", <<"m">>>>}}
    /\ actionLine = <<>>
    /\ rawInteractions = <<>> /\ consolidated = <<>> /\ generatedTests = <<>>
    /\ flowGroups = <<>>
    /\ IdleResolver /\ IdleNaming /\ IdleInserter /\ IdleProcess /\ IdleLifecycle

GenerateActionCall ==
    /\ pc = "call"
    /\ actionLine' = GenerateAction(argInteraction, testIdMap)
    /\ pc' = "return"
    /\ UNCHANGED <<rawInteractions, consolidated, argInteraction, testIdMap,
                   generatedTests, flowGroups, resolverVars, namingVars, inserterVars,
                   processVars,
                   lifecycleVars>>

SpecAction == InitAction /\ [][GenerateActionCall]_vars

\* ---- generatePlaywrightTest

\* A button of file A, a button of file B and an input that has an
\* identifier of its own and no source location.
PathLogin == <<"app", "src", "pages", "LoginPage.tsx">>
ButtonA == ElementInfo("button", "#a")
ButtonB == ElementInfo("button", "#b")
InputC == [ElementInfo("input", "#c") EXCEPT !.existingTestId = <<<<"e">>>>]
Window == ElementInfo("window", "")
InA == <<SourceLocation(PathA, 1, 0, "LoginPage")>>
InB == <<SourceLocation(PathB, 1, 4, "LoginPage")>>

\* Clicks, a typed value, a form submission and navigations, one of them
\* to a string that is no URL.
GenerateEvents ==
    {InteractionData("click", url, e[1], e[2], "", "") :
        url \in {HomeUrl, DashboardUrl},
        e \in {<<ButtonA, InA>>, <<ButtonB, InB>>, <<InputC, <<>>>>}} \cup
    {InteractionData("input", HomeUrl, InputC, <<>>, value, "") : value \in {"", "v"}} \cup
    {InteractionData("submit", HomeUrl, ButtonA, InA, "", "")} \cup
    {InteractionData("navigation", url, Window, <<>>, "", "") :
        url \in {HomeUrl, DashboardUrl, IndexUrl, BadUrl}}

InitGenerate ==
    /\ pc = "call"
    /\ session \in {RecordingSession("Login Flow!", "", its) :
                       its \in SeqsUpTo(GenerateEvents, MaxSteps)}
    /\ testIdMap \in {{}, {<<"#a", <<"m">>>>}}
    /\ generatedTests = <<>>
    /\ rawInteractions = <<>> /\ consolidated = <<>> /\ argInteraction = <<>>
    /\ actionLine = <<>> /\ flowGroups = <<>>
    /\ disk = <<>> /\ result = <<>>
    /\ IdleApply
    /\ IdleResolver /\ IdleNaming /\ IdleInserter /\ IdleLifecycle

\* generatedTests becomes <<[threw, files]>>.
GeneratePlaywrightTestCall ==
    /\ pc = "call"
    /\ generatedTests' = <<GeneratePlaywrightTest(session, DefaultConfig(ProjectRoot),
                                                  testIdMap)>>
    /\ pc' = "return"
    /\ UNCHANGED <<rawInteractions, consolidated, argInteraction, testIdMap,
                   actionLine, flowGroups, resolverVars, namingVars, inserterVars,
                   processVars,
                   lifecycleVars>>

SpecGenerate == InitGenerate /\ [][GeneratePlaywrightTestCall]_vars

\* ---- processSession on the login flow

\* The fields and the button of LoginPage.tsx on lines 5, 6 and 7, recorded
\* as the visit of "/", the typing into the two fields (the e-mail address
\* in one or two input events), the click on the button and the navigation
\* to "/dashboard".
LoginSession(emailType, placeholder, text, attrType, col, typed) ==
    LET email == [ElementInfo("input", "#email") EXCEPT
                      !.inputType = emailType, !.attributes.type = emailType,
                      !.placeholder = placeholder]
        password == [ElementInfo("input", "#password") EXCEPT
                         !.inputType = "password", !.attributes.type = "password"]
        submit == [ElementInfo("button", "#submit") EXCEPT
                       !.textContent = text, !.innerText = text,
                       !.attributes.type = attrType]
        At(l) == <<SourceLocation(PathLogin, l, col, "LoginPage")>>
    IN RecordingSession("Login Flow!", HomeUrl,
           <<InteractionData("navigation", HomeUrl, Window, <<>>, "", "")>> \o
           [k \in 1..typed |->
               InteractionData("input", HomeUrl, email, At(5),
                               IF k = typed THEN "a@b.c" ELSE "a", "")] \o
           <<InteractionData("input", HomeUrl, password, At(6), "secret", ""),
             InteractionData("click", HomeUrl, submit, At(7), "", ""),
             InteractionData("navigation", DashboardUrl, Window, <<>>, "", "")>>)

LoginSessions ==
    {LoginSession(emailType, placeholder, text, attrType, col, typed) :
        emailType \in {"email", "text"}, placeholder \in {"", "Email"},
        text \in {"Submit", "Sign in"}, attrType \in {"submit", ""},
        col \in {4, 8}, typed \in {1, 2}}

\* LoginPage.tsx with the three tags at the column of the session.
LoginDisk(col) ==
    [p \in {PathLogin} |->
        << <<Element(5, col, "input", <<>>), Element(6, col, "input", <<>>),
             Element(7, col, "button", <<>>)>> >>]

InitEndToEnd ==
    /\ pc = "call"
    /\ session \in LoginSessions
    /\ disk = LoginDisk(session.interactions[2].source[1].columnNumber)
    /\ result = <<>>
    /\ IdleApply
    /\ IdleResolver /\ IdleNaming /\ IdleInserter /\ IdleGenerator /\ IdleLifecycle

SpecEndToEnd == InitEndToEnd /\ [][ProcessSessionCall]_vars

\* ---- processSession, applyResult, rollback

\* The agent is constructed for /app; the application may be found to run
\* from /app or from /app/web.  A.tsx of /app/src and A.tsx of /app/web/src
\* have one tag each.
WebRoot == <<"app", "web">>
PathW == <<"app", "web", "src", "A.tsx">>
InW == <<SourceLocation(PathW, 1, 4, "LoginPage")>>
ApplyEvents ==
    {InteractionData("click", HomeUrl, ElementInfo("button", "#a"),
                     <<SourceLocation(PathA, 1, 4, "LoginPage")>>, "", ""),
     InteractionData("click", HomeUrl, ElementInfo("button", "#w"), InW, "", ""),
     InteractionData("click", HomeUrl, ElementInfo("button", "#n"), <<>>, "", "")}
ApplyDisks ==
    {[p \in {PathA, PathW} |-> IF p = PathA THEN <<a>> ELSE w] :
        a \in {<<Element(1, 4, "button", <<>>)>>,
               <<Element(1, 4, "button", <<TestIdAttr(ClickId)>>)>>},
        w \in {<<>>, << <<Element(1, 4, "input", <<>>)>> >>}}

InitApply ==
    /\ pc = "call"
    /\ session \in {RecordingSession("Login Flow!", HomeUrl, its) :
                       its \in SeqsUpTo(ApplyEvents, MaxApplied)}
    /\ disk \in ApplyDisks
    /\ detectedRoot \in {<<>>, <<ProjectRoot>>, <<WebRoot>>}
    /\ result = <<>>
    /\ applyConfig = <<>> /\ diffIdx = 0
    /\ applied = <<>> /\ applyErrors = <<>> /\ restored = <<>>
    /\ rollbackErrors = <<>> /\ preApply = <<>>
    /\ IdleResolver /\ IdleNaming /\ IdleInserter /\ IdleGenerator /\ IdleLifecycle

\* A source file is removed between the preview and its application.
SourceFileRemoved ==
    /\ pc = "return"
    /\ \E p \in DOMAIN disk :
           /\ disk[p] # <<>>
           /\ disk' = [disk EXCEPT ![p] = <<>>]
    /\ UNCHANGED <<pc, session, result, applyVars, resolverVars, namingVars,
                   inserterVars, generatorVars,
                   lifecycleVars>>

\* Lines 224-227: applyResult(result, session) or applyResult(result), with
\* backupBeforeModify as the configuration file has it.
ApplyResultCall ==
    /\ pc = "return"
    /\ \E withSession \in BOOLEAN, backups \in BOOLEAN :
           LET config == [DefaultConfig(ProjectRoot) EXCEPT !.backupBeforeModify = backups]
           IN applyConfig' = IF withSession
                             THEN ResolveConfig(session, config, detectedRoot)
                             ELSE config
    /\ diffIdx' = 1
    /\ preApply' = disk
    /\ pc' = "diff"
    /\ UNCHANGED <<session, disk, result, detectedRoot, applied, applyErrors, restored,
                   rollbackErrors, resolverVars, namingVars, inserterVars, generatorVars,
                   lifecycleVars>>

\* Lines 232-235 and 238-240: the backup of the file of the current diff;
\* when it throws, the round of the loop ends with an error.
BackupStep ==
    /\ pc = "diff"
    /\ diffIdx <= Len(result[1].fileDiffs)
    /\ applyConfig.backupBeforeModify
    /\ LET diff == result[1].fileDiffs[diffIdx]
           b == BackupFile(disk, diff.filePath, applyConfig.projectRoot)
       IN IF b.threw
          THEN /\ applyErrors' = Append(applyErrors, diff.filePath)
               /\ diffIdx' = diffIdx + 1
               /\ UNCHANGED <<pc, disk, result>>
          ELSE /\ disk' = b.files
               /\ result' = <<[result[1] EXCEPT !.backupPaths = Append(@, b.backupPath)]>>
               /\ pc' = "write"
               /\ UNCHANGED <<diffIdx, applyErrors>>
    /\ UNCHANGED <<session, detectedRoot, applyConfig, applied, restored, rollbackErrors,
                   preApply, resolverVars, namingVars, inserterVars, generatorVars,
                   lifecycleVars>>

\* Lines 236-237: the file of the current diff is overwritten.
WriteStep ==
    /\ \/ pc = "write"
       \/ /\ pc = "diff"
          /\ diffIdx <= Len(result[1].fileDiffs)
          /\ ~applyConfig.backupBeforeModify
    /\ LET diff == result[1].fileDiffs[diffIdx]
       IN /\ disk' = WriteSourceFile(disk, diff.filePath, diff.modified)
          /\ applied' = Append(applied, diff.filePath)
    /\ diffIdx' = diffIdx + 1
    /\ pc' = "diff"
    /\ UNCHANGED <<session, result, detectedRoot, applyConfig, applyErrors, restored,
                   rollbackErrors, preApply, resolverVars, namingVars, inserterVars,
                   generatorVars,
                   lifecycleVars>>

\* Lines 243-256: the generated tests are written and applyResult returns.
WriteTestsStep ==
    /\ pc = "diff"
    /\ diffIdx > Len(result[1].fileDiffs)
    /\ LET st == WriteTests([files |-> disk, applied |-> applied],
                            result[1].generatedTests, applyConfig.projectRoot)
       IN /\ disk' = st.files
          /\ applied' = st.applied
    /\ pc' = "applied"
    /\ UNCHANGED <<session, result, detectedRoot, applyConfig, diffIdx, applyErrors,
                   restored, rollbackErrors, preApply, resolverVars, namingVars,
                   inserterVars, generatorVars,
                   lifecycleVars>>

\* rollback(result.backupPaths)
RollbackCall ==
    /\ pc = "applied"
    /\ LET st == RestoreAll([files |-> disk, restored |-> <<>>, errors |-> <<>>],
                            result[1].backupPaths, ProjectRoot)
       IN /\ disk' = st.files
          /\ restored' = st.restored
          /\ rollbackErrors' = st.errors
    /\ pc' = "restored"
    /\ UNCHANGED <<session, result, detectedRoot, applyConfig, diffIdx, applied,
                   applyErrors, preApply, resolverVars, namingVars, inserterVars,
                   generatorVars,
                   lifecycleVars>>

NextApply ==
    \/ ProcessSessionCall
    \/ SourceFileRemoved
    \/ ApplyResultCall
    \/ BackupStep
    \/ WriteStep
    \/ WriteTestsStep
    \/ RollbackCall

SpecApply == InitApply /\ [][NextApply]_vars

\* ---- groupInteractions

InitGroup ==
    /\ pc = "call"
    /\ consolidated \in {ConsolidateInteractions(its) :
                            its \in SeqsUpTo(GenerateEvents, MaxSteps)}
    /\ flowGroups = <<>>
    /\ rawInteractions = <<>> /\ argInteraction = <<>> /\ testIdMap = {}
    /\ actionLine = <<>> /\ generatedTests = <<>>
    /\ IdleResolver /\ IdleNaming /\ IdleInserter /\ IdleProcess /\ IdleLifecycle

\* flowGroups becomes <<[threw, groups]>>.
GroupInteractionsCall ==
    /\ pc = "call"
    /\ flowGroups' = <<GroupInteractions(consolidated)>>
    /\ pc' = "return"
    /\ UNCHANGED <<rawInteractions, consolidated, argInteraction, testIdMap,
                   actionLine, generatedTests, resolverVars, namingVars, inserterVars,
                   processVars,
                   lifecycleVars>>

SpecGroup == InitGroup /\ [][GroupInteractionsCall]_vars

\* ---- session lifecycle (SessionManager, WebSocketHandler, the process route)

\* The ids uuidv4 hands out.
SessionIds == 1..MaxSessions

\* The sessionId of an event or of a request: one of the ids, or 0 for an id
\* no session has (for the WebSocket events also: no id at all).
RequestIds == SessionIds \cup {0}

\* A stored RecordingSession, by its status, the length of interactions and
\* whether stoppedAt is set.
StoredSession(status, count) ==
    [status |-> status, interactions |-> count, stoppedAt |-> FALSE]

\* this.sessions.get(id): <<>> for undefined
GetSession(all, id) == IF id \in DOMAIN all THEN all[id] ELSE <<>>

\* createSession: a session in status 'recording' without interactions.
CreateSession(all, id) == [all EXCEPT ![id] = <<StoredSession("recording", 0)>>]

\* updateStatus(sessionId, status): [success, sessions]
UpdateStatus(all, id, status) ==
    IF GetSession(all, id) = <<>> THEN [success |-> FALSE, sessions |-> all]
    ELSE [success |-> TRUE,
          sessions |-> [all EXCEPT ![id] =
                           <<[@[1] EXCEPT !.status = status,
                                          !.stoppedAt = @ \/ status = "stopped"]>>]]

\* addInteraction(sessionId, interaction): [success, sessions]
AddInteraction(all, id) ==
    IF GetSession(all, id) = <<>> \/ GetSession(all, id)[1].status # "recording"
    THEN [success |-> FALSE, sessions |-> all]
    ELSE [success |-> TRUE,
          sessions |-> [all EXCEPT ![id] = <<[@[1] EXCEPT !.interactions = @ + 1]>>]]

InitSession ==
    /\ pc = "serve"
    /\ sessions = [id \in SessionIds |-> <<>>]
    /\ inFlight = <<>>
    /\ IdleResolver /\ IdleNaming /\ IdleInserter /\ IdleProcess /\ IdleGenerator

\* What no handler of the server touches.
ServerUnchanged ==
    UNCHANGED <<pc, resolverVars, namingVars, inserterVars, processVars, generatorVars>>

\* session:start.  An event is handled when no request is between the two
\* halves of the process route: the agent call awaits nothing, so the
\* route resumes before the next message is dispatched.
HandleSessionStart ==
    /\ inFlight = <<>>
    /\ \E id \in SessionIds :
           /\ sessions[id] = <<>>
           /\ sessions' = CreateSession(sessions, id)
    /\ UNCHANGED inFlight
    /\ ServerUnchanged

\* session:stop (no onSessionStop callback is registered)
HandleSessionStop ==
    /\ inFlight = <<>>
    /\ \E id \in RequestIds : sessions' = UpdateStatus(sessions, id, "stopped").sessions
    /\ UNCHANGED inFlight
    /\ ServerUnchanged

\* session:pause
HandleSessionPause ==
    /\ inFlight = <<>>
    /\ \E id \in RequestIds : sessions' = UpdateStatus(sessions, id, "paused").sessions
    /\ UNCHANGED inFlight
    /\ ServerUnchanged

\* session:resume
HandleSessionResume ==
    /\ inFlight = <<>>
    /\ \E id \in RequestIds : sessions' = UpdateStatus(sessions, id, "recording").sessions
    /\ UNCHANGED inFlight
    /\ ServerUnchanged

\* interaction
HandleInteraction ==
    /\ inFlight = <<>>
    /\ \E id \in RequestIds :
           /\ GetSession(sessions, id) # <<>> => sessions[id][1].interactions < MaxRecorded
           /\ sessions' = AddInteraction(sessions, id).sessions
    /\ UNCHANGED inFlight
    /\ ServerUnchanged

\* POST /api/sessions/:id/process up to the await: 404 without the session,
\* 400 without interactions, else the status becomes 'processing'.
ProcessRequest ==
    /\ inFlight = <<>>
    /\ \E id \in RequestIds :
           IF GetSession(sessions, id) = <<>> \/ sessions[id][1].interactions = 0
           THEN UNCHANGED <<sessions, inFlight>>
           ELSE /\ sessions' = UpdateStatus(sessions, id, "processing").sessions
                /\ inFlight' = <<id>>
    /\ ServerUnchanged

\* The route after the await: 'error' when the result has errors or the
\* agent threw, else 'completed'.
ProcessResponse ==
    /\ inFlight # <<>>
    /\ \E failed \in BOOLEAN :
           sessions' = UpdateStatus(sessions, inFlight[1],
                                    IF failed THEN "error" ELSE "completed").sessions
    /\ inFlight' = <<>>
    /\ ServerUnchanged

NextSession ==
    \/ HandleSessionStart
    \/ HandleSessionStop
    \/ HandleSessionPause
    \/ HandleSessionResume
    \/ HandleInteraction
    \/ ProcessRequest
    \/ ProcessResponse

SpecSession == InitSession /\ [][NextSession]_vars

-----------------------------------------------------------------------------
(* Claims *)

MinOf(S) == CHOOSE i \in S : \A k \in S : i <= k

\* C1: findJSXElementAtPosition returns the occurrence at exactly (line,
\* column) if there is one; else the only occurrence of that line if there is
\* exactly one; else the occurrence nearest in lines, the earliest of the
\* index among ties; and none exactly when the index is empty.  With
\* occurrences on lines 4, 5 and 6, one of them on line 5, (5, 999) gives
\* the one of line 5 and (10, 0) one of line 6.
C1_PositionResolution ==
    pc = "return" =>
        LET n == Len(jsxElements)
            exact == {i \in 1..n : jsxElements[i].line = line /\ jsxElements[i].column = column}
            same == {i \in 1..n : jsxElements[i].line = line}
            Dist(i) == Abs(jsxElements[i].line - line)
            nearest == {i \in 1..n : \A j \in 1..n : Dist(i) <= Dist(j)}
            lines == {jsxElements[i].line : i \in 1..n}
        IN /\ (found = <<>>) <=> (n = 0)
           /\ exact # {} => found = <<jsxElements[MinOf(exact)]>>
           /\ (exact = {} /\ Cardinality(same) = 1) => found = <<jsxElements[MinOf(same)]>>
           /\ (exact = {} /\ Cardinality(same) # 1 /\ n > 0) =>
                  found = <<jsxElements[MinOf(nearest)]>>
           /\ (lines = {4, 5, 6} /\ Cardinality({i \in 1..n : jsxElements[i].line = 5}) = 1) =>
                  /\ (line = 5 /\ column = 999) => found[1].line = 5
                  /\ (line = 10 /\ column = 0) => found[1].line = 6

\* C1 witness: no occurrence on line 5, occurrences on lines 4 and 6 at the
\* same distance; the one of line 4, first in the index, was returned.
C1_Witness ==
    /\ pc = "return"
    /\ line = 5
    /\ {jsxElements[i].line : i \in 1..Len(jsxElements)} = {4, 6}
    /\ found # <<>>
    /\ found[1].line = 4

\* C2: makeUnique returns the candidate when it is not in the set, else
\* candidate-k for the smallest k >= 2 with candidate-k not in the set; the
\* result is never in the set, and the set is not modified.
C2_Result ==
    pc = "return" =>
        LET r == unique[1]
            x == <<"x">>
        IN /\ testId \notin existingIds => r = testId
           /\ testId \in existingIds =>
                \E k \in 2..(Cardinality(existingIds) + 2) :
                    /\ r = Suffixed(testId, k)
                    /\ \A j \in 2..(k - 1) : Suffixed(testId, j) \in existingIds
           /\ r \notin existingIds
           /\ (testId = x /\ existingIds = {x}) => r = <<"x", "2">>
           /\ (testId = x /\ existingIds = {x, <<"x", "2">>, <<"x", "3">>}) =>
                r = <<"x", "4">>

C2_MakeUnique == [](C2_Result) /\ [][existingIds' = existingIds]_vars

\* C2 witness: x, x-2 and x-3 are taken and x-4 was returned.
C2_Witness ==
    /\ pc = "return"
    /\ testId = <<"x">>
    /\ {<<"x">>, <<"x", "2">>, <<"x", "3">>} \subseteq existingIds
    /\ unique = <<<<"x", "4">>>>

\* ---- insertTestIds

\* The data-testid attributes of an opening tag of a text.
TestIdAttrsOf(el) == SelectSeq(el.attributes, IsTestIdAttr)

\* The identifier string values the text carries.
IdsIn(text) == CollectTestIds(ParseSource(text))

\* The opening tags of a text that start at exactly the Edit's position.
TagsAt(text, e) ==
    {k \in 1..Len(text) : text[k].line = e.lineNumber /\ text[k].column = e.columnNumber}

\* The Edit names the tag's name, or any name.
Expects(e, tag) == e.elementTagName = tag \/ e.elementTagName = "*"

\* The precondition of C3 on a text and an Edit list.
AllInsertable(text, edits) ==
    /\ \A i \in 1..Len(edits) :
         /\ edits[i].testId \notin IdsIn(text)
         /\ \E k \in TagsAt(text, edits[i]) :
              /\ Expects(edits[i], text[k].tagName)
              /\ TestIdAttrsOf(text[k]) = <<>>
    /\ \A i, j \in 1..Len(edits) :
         i # j => /\ edits[i].testId # edits[j].testId
                  /\ TagsAt(text, edits[i]) # TagsAt(text, edits[j])

\* C3: when every Edit of the list, in any order, has an identifier of its
\* own that the file does not carry and targets a tag of its own that has no
\* identifier attribute and the expected name, all Edits are inserted, none
\* is skipped and each targeted tag carries exactly its Edit's identifier.
C3_AllInserted ==
    (pc = "return" /\ pass = 1 /\ AllInsertable(code, insertions)) =>
        /\ inserted = Len(insertions)
        /\ skipped = <<>>
        /\ \A i \in 1..Len(insertions) : \A k \in TagsAt(code, insertions[i]) :
             TestIdAttrsOf(resultCode[k]) = <<TestIdAttr(insertions[i].testId)>>

\* C3 witness: two Edits on one line, given in ascending column order, the
\* first of them at column 0; both were inserted.
C3_Witness ==
    /\ pc = "return"
    /\ pass = 1
    /\ AllInsertable(code, insertions)
    /\ Len(insertions) = 2
    /\ insertions[1].lineNumber = insertions[2].lineNumber
    /\ insertions[1].columnNumber = 0
    /\ inserted = 2

\* The step of the loop leaves the tree and the count alone and appends one
\* skip entry, for the current Edit, whose reason satisfies Says.
SkipsWith(Says(_)) ==
    /\ ast' = ast
    /\ inserted' = inserted
    /\ Len(skipped') = Len(skipped) + 1
    /\ SubSeq(skipped', 1, Len(skipped)) = skipped
    /\ skipped'[Len(skipped')].testId = sorted[idx].testId
    /\ Says(skipped'[Len(skipped')])

SaysAlreadyExists(entry) == entry.reason = "already exists in file"

SaysNotFound(entry) == entry.reason = "Could not find JSX element at line"

AtEdit == pc = "loop" /\ idx <= Len(sorted)

\* The data-testid attributes of a text whose value is id, by place.
Carriers(text, id) ==
    UNION {{<<k, j>> : j \in {j \in 1..Len(text[k].attributes) :
                                /\ IsTestIdAttr(text[k].attributes[j])
                                /\ text[k].attributes[j].value = id}} :
           k \in 1..Len(text)}

\* C4: an Edit whose identifier is a data-testid string value of the file,
\* or was inserted earlier in the pass, is not applied and is skipped with
\* the reason that the identifier already exists; so no identifier inserted
\* by a pass is carried twice by the resulting text.
C4_DuplicateSkipped ==
    /\ [][(AtEdit /\ sorted[idx].testId \in CollectTestIds(ast)) =>
              SkipsWith(SaysAlreadyExists)]_vars
    /\ [](pc = "return" =>
            \A id \in IdsIn(resultCode) \ IdsIn(code) :
                Cardinality(Carriers(resultCode, id)) = 1)

\* C4 witness: an identifier the file did not carry was inserted by one Edit
\* and a second Edit with the same identifier was skipped as a duplicate.
C4_Witness ==
    /\ pc = "return"
    /\ pass = 1
    /\ inserted = 1
    /\ Len(skipped) = 1
    /\ SaysAlreadyExists(skipped[1])
    /\ skipped[1].testId \notin IdsIn(code)

\* The Edit's position is exactly that of a tag that has the expected name
\* and already carries a data-testid attribute.
TargetsTagWithTestId(tree, e) ==
    \E k \in 1..Len(tree) :
        /\ tree[k].loc.line = e.lineNumber
        /\ tree[k].loc.column = e.columnNumber
        /\ Expects(e, tree[k].name)
        /\ HasTestId(tree[k])

\* C5: an Edit that targets a tag which already carries the identifier
\* attribute inserts nothing (the count and every tag stay as they are) and
\* is skipped with a reason that says the attribute was pre-existing.
C5_PreExistingSkip ==
    [][(AtEdit /\ TargetsTagWithTestId(ast, sorted[idx])) =>
           SkipsWith(SaysAlreadyExists)]_vars

C9_AfterLastSpread ==
    (pc = "return" /\ inserted = 1) =>
        LET old == code[1].attributes
            new == resultCode[1].attributes
            spreads == {j \in 1..Len(old) : old[j].type = "JSXSpreadAttribute"}
            at == IF spreads = {} THEN Len(old) + 1
                  ELSE 1 + CHOOSE j \in spreads : \A k \in spreads : k <= j
        IN /\ Len(new) = Len(old) + 1
           /\ new[at] = TestIdAttr(sorted[1].testId)
           /\ SubSeq(new, 1, at - 1) \o SubSeq(new, at + 1, Len(new)) = old

\* C9 witness: an identifier was inserted into a tag whose attribute list
\* has a spread attribute in the middle.
C9_Witness ==
    /\ pc = "return"
    /\ inserted = 1
    /\ code[1].attributes = <<ClassNameAttr, SpreadAttr, OnClickAttr>>

Without(s, i) == SubSeq(s, 1, i - 1) \o SubSeq(s, i + 1, Len(s))

\* No tag of the text can take the Edit.
Unlocatable(text, e) == TargetIndex(ParseSource(text), e) = 0

\* C10: every step of the loop either counts its Edit in inserted or lists
\* it once in skipped, so inserted + |skipped| = |Edits| when the pass is
\* over; and an Edit that cannot be located changes nothing for the others:
\* without it the pass returns the same text, the same count and the same
\* skip list less its entry.
C10_PerEditFailure ==
    /\ [][AtEdit =>
            \/ /\ inserted' = inserted + 1
               /\ skipped' = skipped
            \/ SkipsWith(LAMBDA entry : TRUE)]_vars
    /\ [](pc = "return" =>
            /\ inserted + Len(skipped) = Len(insertions)
            /\ \A i \in 1..Len(insertions) :
                 Unlocatable(code, insertions[i]) =>
                    LET r == InsertTestIds(code, Without(insertions, i))
                    IN /\ r.code = resultCode
                       /\ r.inserted = inserted
                       /\ \E j \in 1..Len(skipped) :
                            /\ skipped[j].testId = insertions[i].testId
                            /\ Without(skipped, j) = r.skipped)

\* C10 witness: the first Edit the loop took could not be located and was
\* skipped, the second one was inserted.
C10_Witness ==
    /\ pc = "return"
    /\ pass = 1
    /\ Len(sorted) = 2
    /\ Unlocatable(code, sorted[1])
    /\ inserted = 1
    /\ Len(skipped) = 1
    /\ SaysNotFound(skipped[1])
    /\ skipped[1].testId = sorted[1].testId

\* An attribute of the returned text that the pass inserted: a data-testid
\* attribute whose string value the input text did not carry.
IsInserted(a) == IsTestIdAttr(a) /\ IsLiteral(a) /\ a.value \notin IdsIn(code)

\* The characters the inserted attributes of a tag take: ` data-testid='id'`.
InsertedWidth(el) ==
    LET ins == SelectSeq(el.attributes, IsInserted)
        Acc[j \in 0..Len(ins)] ==
            IF j = 0 THEN 0 ELSE Acc[j - 1] + 15 + IdLength(ins[j].value)
    IN Acc[Len(ins)]

\* The columns the inserted attributes of the tags before the k-th on its
\* line take.
InsertedBefore(text, k) ==
    LET Acc[j \in 0..(k - 1)] ==
            IF j = 0 THEN 0
            ELSE Acc[j - 1] + (IF text[j].line = text[k].line
                               THEN InsertedWidth(text[j]) ELSE 0)
    IN Acc[k - 1]

PlannedEdits == result[1].testIdPlan.insertions

\* C7: the identifiers of the Edits planned in one processSession run are
\* pairwise distinct, also when two interactions synthesize the same name.
C7_PlannedIdsDistinct ==
    pc = "return" =>
        \A i, j \in 1..Len(PlannedEdits) :
            i # j => PlannedEdits[i].testId # PlannedEdits[j].testId

\* C7 witness: two interactions of the same type on the same component and
\* tag name were planned; the second identifier is the first with -2.
C7_Witness ==
    /\ pc = "return"
    /\ Len(PlannedEdits) = 2
    /\ session.interactions[1].type = session.interactions[2].type
    /\ PlannedEdits[2].testId = Suffixed(PlannedEdits[1].testId, 2)

\* C8: no two Edits of the plan of one file target the same (line, column).
C8_PlannedPositionsDistinct ==
    pc = "return" =>
        \A i, j \in 1..Len(PlannedEdits) :
            (i # j /\ PlannedEdits[i].filePath = PlannedEdits[j].filePath) =>
                <<PlannedEdits[i].lineNumber, PlannedEdits[i].columnNumber>> #
                <<PlannedEdits[j].lineNumber, PlannedEdits[j].columnNumber>>

\* ---- consolidateInteractions

\* The events the reference keeps: the last event of each maximal run of
\* input/change events on one selector, every click that is not right before
\* an input on its selector, and every event of another type.
KeptByReference(its) ==
    {i \in 1..Len(its) :
        LET hasNext == i < Len(its)
            sameNext == hasNext /\ its[i + 1].element.cssSelector
                                      = its[i].element.cssSelector
        IN CASE its[i].type \in {"input", "change"} ->
                    ~(sameNext /\ its[i + 1].type \in {"input", "change"})
             [] its[i].type = "click" ->
                    ~(sameNext /\ its[i + 1].type = "input")
             [] OTHER -> TRUE}

\* The events of a list at a set of indices, in the order of the list.
RECURSIVE Pick(_, _, _)
Pick(its, keep, i) ==
    IF i > Len(its) THEN <<>>
    ELSE (IF i \in keep THEN <<its[i]>> ELSE <<>>) \o Pick(its, keep, i + 1)

\* C12: consolidateInteractions returns, for every list, the events the
\* reference keeps, in their order: runs of input/change on one selector
\* give their last event, a click right before an input on its selector is
\* dropped, everything else is kept.
C12_ConsolidationReference ==
    pc = "return" =>
        consolidated = Pick(rawInteractions, KeptByReference(rawInteractions), 1)

\* C12 witness: [click(#email), input(#email, a), input(#email, ab),
\* click(#submit)] gave [input(#email, ab), click(#submit)].
C12_Witness ==
    /\ pc = "return"
    /\ Len(rawInteractions) = 4
    /\ [i \in 1..4 |-> <<rawInteractions[i].type,
                         rawInteractions[i].element.cssSelector,
                         rawInteractions[i].value>>]
           = << <<"click", "#email", "">>, <<"input", "#email", "a">>,
                <<"input", "#email", "ab">>, <<"click", "#submit", "">> >>
    /\ Len(consolidated) = 2
    /\ consolidated[1] = rawInteractions[3]
    /\ consolidated[2] = rawInteractions[4]

\* ---- generateTestId

\* The action of the claim: the hint if one is given, else the first hit of:
\* the input type, when it is one of the four; the first keyword of the list
\* the visible text contains; the attribute type=submit; the label.
ClaimedAction(el, hint) ==
    LET visible == IF el.textContent # "" THEN el.textContent ELSE el.innerText
        IsHit(k) == Includes(visible, ActionWords[k])
    IN IF hint # "" THEN hint
       ELSE IF el.inputType \in {"submit", "email", "password", "search"}
       THEN el.inputType
       ELSE IF \E k \in 1..Len(ActionWords) : IsHit(k)
       THEN ActionWords[CHOOSE k \in 1..Len(ActionWords) :
                           IsHit(k) /\ \A h \in 1..(k - 1) : ~IsHit(h)]
       ELSE IF el.attributes.type = "submit" THEN "submit"
       ELSE el.ariaLabel

\* C14: under component-action the identifier is the join of the segments
\* that are present among the component name, the action (the hint, else
\* the inferred one) and the tag name.
C14_ComponentAction ==
    (pc = "return" /\ argStrategy.type = "component-action") =>
        LET component == IF argSource = <<>> THEN "" ELSE argSource[1].componentName
        IN testId = CleanSegment(component)
                        \o CleanSegment(ClaimedAction(argElement, argAction))
                        \o CleanSegment(argElement.tagName)

\* C14 witness: (LoginForm, no hint, text "Save Changes", button) gave
\* login-form-save-button.
C14_Witness ==
    /\ pc = "return"
    /\ argStrategy.type = "component-action"
    /\ argSource # <<>>
    /\ argSource[1].componentName = "LoginForm"
    /\ argAction = ""
    /\ argElement.tagName = "button"
    /\ argElement.textContent = "Save Changes"
    /\ argElement.inputType = ""
    /\ argElement.attributes.type = "submit"
    /\ testId = <<"login", "form", "save", "button">>

\* ---- generateAction

\* The selector of the claim's priority order: the assigned or existing
\* identifier, then role with label, then the visible text if it is short,
\* then the id attribute, then the raw selector.
ClaimedSelector(it, map) ==
    LET el == it.element
        id == IF el.existingTestId # <<>> THEN el.existingTestId
              ELSE MapGet(map, el.cssSelector)
        visible == IF el.textContent # "" THEN el.textContent ELSE el.innerText
    IN IF id # <<>> THEN [by |-> "testId", target |-> id[1], name |-> ""]
       ELSE IF el.ariaRole # "" /\ el.ariaLabel # ""
       THEN [by |-> "role", target |-> <<el.ariaRole>>, name |-> el.ariaLabel]
       ELSE IF visible # "" /\ Len(visible) < 50
       THEN [by |-> "text", target |-> <<visible>>, name |-> ""]
       ELSE IF el.attributes.id # ""
       THEN [by |-> "locator", target |-> <<"#" \o el.attributes.id>>, name |-> ""]
       ELSE [by |-> "locator", target |-> <<el.cssSelector>>, name |-> ""]

\* C15: the statement for a click or double-click is a click on the selector
\* of the priority order; the statement for an input or change is a fill,
\* on the selector of the same order, with the final value, and there is no
\* statement when that value is empty.
C15_SelectorPriority ==
    pc = "return" =>
        LET it == argInteraction
            sel == ClaimedSelector(it, testIdMap)
            final == IF it.value # "" THEN it.value ELSE it.element.value
            Uses(st) == st.by = sel.by /\ st.target = sel.target /\ st.name = sel.name
        IN /\ it.type \in {"click", "dblclick"} =>
                /\ Len(actionLine) = 1
                /\ actionLine[1].kind = "click"
                /\ Uses(actionLine[1])
           /\ it.type \in {"input", "change"} =>
                IF final = "" THEN actionLine = <<>>
                ELSE /\ Len(actionLine) = 1
                     /\ actionLine[1].kind = "fill"
                     /\ actionLine[1].value = EscapeSingle(final)
                     /\ Uses(actionLine[1])

\* ---- Claims about generatePlaywrightTest

\* The interaction lists the generated files are written from, file by file.
WrittenFrom(s) ==
    LET groups == GroupInteractions(ConsolidateInteractions(s.interactions)).groups
    IN IF OneFile(groups) THEN <<FlatMap(groups)>>
       ELSE [k \in 1..Len(groups) |-> groups[k].interactions]

\* C16: for every click that a navigation follows immediately in the
\* consolidated sequence, a generated script has, after the statement of
\* that click, the assertion that the URL contains the path of the
\* navigation.
C16_UrlAssertionAfterClick ==
    (pc = "return" /\ ~generatedTests[1].threw) =>
        LET its == ConsolidateInteractions(session.interactions)
        IN \A i \in 1..(Len(its) - 1) :
               (/\ its[i].type = "click"
                /\ its[i + 1].type = "navigation"
                /\ IsValidUrl(its[i + 1].url)) =>
                   \E k \in 1..Len(generatedTests[1].files) :
                       LET body == generatedTests[1].files[k].content.body
                       IN \E p0 \in 1..Len(body), q0 \in 1..Len(body) :
                              /\ p0 < q0
                              /\ <<body[p0]>> = GenerateAction(its[i], testIdMap)
                              /\ body[q0] = ExpectUrlContains(Pathname(its[i + 1].url))

\* C17: every assertion inferred for an interaction of a generated script
\* is in the script by its confidence: the statement itself when high, a
\* TODO comment when medium or low; the statement of a medium or low
\* assertion is never in the script as an executable statement.
C17_ConfidenceRendering ==
    (pc = "return" /\ ~generatedTests[1].threw) =>
        LET lists == WrittenFrom(session)
        IN \A k \in 1..Len(generatedTests[1].files) :
               LET body == generatedTests[1].files[k].content.body
               IN \A i \in 1..Len(lists[k]) :
                      lists[k][i].type # "navigation" =>
                          \A a \in Range(GenerateAssertions(lists[k], i)) :
                              /\ a.confidence = "high" => a.code \in Range(body)
                              /\ a.confidence # "high" =>
                                     /\ \/ TodoComment(a.description) \in Range(body)
                                        \/ /\ a.code.kind = "todo"
                                           /\ a.code \in Range(body)
                                     /\ a.code.kind # "todo" => a.code \notin Range(body)

\* ---- Claims about processSession on the login flow

EmailId == <<"login", "page", "email", "input">>
PasswordId == <<"login", "page", "password", "input">>
SubmitId == <<"login", "page", "submit", "button">>

\* C13: for the login flow processSession plans exactly the identifiers
\* login-page-email-input, login-page-password-input and
\* login-page-submit-button, and generates one script that begins with the
\* navigation to "/", fills the two fields and clicks the button by those
\* identifiers and asserts that the URL contains "/dashboard".
C13_LoginFlow ==
    pc = "return" =>
        LET r == result[1]
            planned == r.testIdPlan.insertions
        IN /\ [k \in 1..Len(planned) |-> planned[k].testId]
                  = <<EmailId, PasswordId, SubmitId>>
           /\ Len(r.generatedTests) = 1
           /\ LET body == r.generatedTests[1].content.body
              IN /\ body[1] = Goto("/")
                 /\ FillByTestId(EmailId, "a@b.c") \in Range(body)
                 /\ FillByTestId(PasswordId, "secret") \in Range(body)
                 /\ ClickByTestId(SubmitId) \in Range(body)
                 /\ Cardinality({k \in 1..Len(body) :
                                    body[k].kind \in {"click", "fill"}}) = 3
                 /\ ExpectUrlContains("/dashboard") \in Range(body)

\* ---- Claims about applyResult and rollback

\* The source files of the application.
SourceFiles == {PathA, PathW}

\* C18: in an applyResult with backups enabled, whenever a step overwrites
\* a source file, a backup path recorded in backupPaths, other than the
\* file itself, already holds the content the file had before that step.
C18_BackupBeforeOverwrite ==
    [][(pc \in {"diff", "write"} /\ applyConfig.backupBeforeModify) =>
          \A p \in SourceFiles :
              (FileExists(disk, p) /\ disk'[p] # disk[p]) =>
                  \E k \in 1..Len(result[1].backupPaths) :
                      LET b == result[1].backupPaths[k]
                      IN /\ b # p
                         /\ FileExists(disk, b)
                         /\ disk[b] = disk[p]]_vars

\* C19: after an applyResult with backups enabled and the rollback of the
\* backup paths it recorded, every source file the apply has written has
\* the content it had before the apply, and restored lists exactly the
\* paths of those files.
C19_RollbackRestores ==
    (pc = "restored" /\ applyConfig.backupBeforeModify) =>
        LET written == SelectSeq(applied, LAMBDA p : p \in SourceFiles)
        IN /\ \A k \in 1..Len(written) : disk[written[k]] = preApply[written[k]]
           /\ restored = written

\* C20: the step of processSession leaves every file as it is and returns
\* an empty backupPaths; a step of the agent that changes a file is a step
\* of applyResult or of rollback.
C20_PreviewWritesNothing ==
    [][/\ pc = "call" => (disk' = disk /\ result'[1].backupPaths = <<>>)
       /\ (disk' # disk /\ ~SourceFileRemoved) => pc \in {"diff", "write", "applied"}]_vars

\* processSession has returned a result with a modified file.
C20_Witness ==
    /\ pc = "return"
    /\ result[1].fileDiffs # <<>>
    /\ result[1].backupPaths = <<>>
    /\ disk \in ApplyDisks

\* ---- Claims about consolidateInteractions applied twice

\* C30: a second consolidation changes nothing: the list consolidateInteractions
\* returns has no two adjacent input/change events on one selector and no
\* click right before an input on its selector.
C30_ConsolidationIdempotent ==
    pc = "return" =>
        /\ ConsolidateInteractions(consolidated) = consolidated
        /\ \A i \in 1..(Len(consolidated) - 1) :
               consolidated[i + 1].element.cssSelector = consolidated[i].element.cssSelector
                   => /\ ~(IsInputOrChange(consolidated[i])
                           /\ IsInputOrChange(consolidated[i + 1]))
                      /\ ~(consolidated[i].type = "click"
                           /\ consolidated[i + 1].type = "input")

\* ---- Claims about groupInteractions

\* C27: the groups groupInteractions returns partition the consolidated
\* list: their interaction lists, in order, make up the list; none is empty;
\* the base URL of the first is the URL of the first event; a group other
\* than the first begins with a navigation to its base URL, which differs
\* from the base URL of the group before; and no other event of a group is
\* a navigation to a URL that differs from the base URL of its group.
C27_GroupsPartition ==
    (pc = "return" /\ ~flowGroups[1].threw) =>
        LET gs == flowGroups[1].groups
        IN /\ FlatMap(gs) = consolidated
           /\ \A k \in 1..Len(gs) : gs[k].interactions # <<>>
           /\ consolidated # <<>> => gs[1].baseUrl = consolidated[1].url
           /\ \A k \in 2..Len(gs) :
                  /\ gs[k].interactions[1].type = "navigation"
                  /\ gs[k].interactions[1].url = gs[k].baseUrl
                  /\ gs[k].baseUrl # gs[k - 1].baseUrl
           /\ \A k \in 1..Len(gs) :
                  \A j \in 1..Len(gs[k].interactions) :
                      (j > 1 \/ k = 1) =>
                          ~(/\ gs[k].interactions[j].type = "navigation"
                            /\ gs[k].interactions[j].url # gs[k].baseUrl)

\* Three events were split into two groups at a navigation.
C27_Witness ==
    /\ pc = "return"
    /\ ~flowGroups[1].threw
    /\ Len(consolidated) = 3
    /\ Len(flowGroups[1].groups) = 2
    /\ Len(flowGroups[1].groups[2].interactions) = 2

\* C26 as stated: every group opened on a navigation is named "home page"
\* when the path of its URL is "/", otherwise "<path> page".
C26_OpenedGroupNamedAsPage ==
    (pc = "return" /\ ~flowGroups[1].threw) =>
        \A k \in 2..Len(flowGroups[1].groups) :
            LET g == flowGroups[1].groups[k]
            IN g.description \in
                   IF Pathname(g.baseUrl) = "/" THEN {"home page"}
                   ELSE {Pathname(g.baseUrl) \o " page",
                         SliceOne(Pathname(g.baseUrl)) \o " page"}

\* C26: every group opened on a navigation is named "interact with <path>"
\* after the path of its URL; the first group is the one named "home page"
\* when the path of its base URL is "/", "<path without its leading /> page"
\* otherwise, and "main page" when its base URL is no URL.
C26_GroupNames ==
    (pc = "return" /\ ~flowGroups[1].threw) =>
        \A k \in 1..Len(flowGroups[1].groups) :
            LET g == flowGroups[1].groups[k]
            IN g.description =
                   IF k > 1 THEN "interact with " \o Pathname(g.baseUrl)
                   ELSE IF ~IsValidUrl(g.baseUrl) THEN "main page"
                   ELSE IF Pathname(g.baseUrl) = "/" THEN "home page"
                   ELSE SliceOne(Pathname(g.baseUrl)) \o " page"

\* A group was opened on a navigation to "/dashboard" after a first group
\* at "/".
C26_Witness ==
    /\ pc = "return"
    /\ ~flowGroups[1].threw
    /\ Len(flowGroups[1].groups) >= 2
    /\ flowGroups[1].groups[1].description = "home page"
    /\ flowGroups[1].groups[2].baseUrl = DashboardUrl

\* ---- Claims about generateTestBody and what the generator throws

\* C28: every navigation event of the list a script is written from has,
\* in the script, the assertion that the URL contains its own path.
C28_NavigationAsserted ==
    (pc = "return" /\ ~generatedTests[1].threw) =>
        LET lists == WrittenFrom(session)
        IN \A k \in 1..Len(generatedTests[1].files) :
               \A i \in 1..Len(lists[k]) :
                   (lists[k][i].type = "navigation" /\ IsValidUrl(lists[k][i].url)) =>
                       ExpectUrlContains(Pathname(lists[k][i].url))
                           \in Range(generatedTests[1].files[k].content.body)

\* C22: generatePlaywrightTest returns to its caller, whatever the URLs of
\* the interactions are.
C22_GeneratorReturns ==
    pc = "return" => ~generatedTests[1].threw

-----------------------------------------------------------------------------
(* Order of application *)

\* a is at the position of b or at a larger (line, column)
NotBefore(a, b) ==
    \/ a.lineNumber > b.lineNumber
    \/ a.lineNumber = b.lineNumber /\ a.columnNumber >= b.columnNumber

SameEdits(s, t) ==
    /\ Len(s) = Len(t)
    /\ \A e \in Range(s) \cup Range(t) :
           Cardinality({i \in 1..Len(s) : s[i] = e})
               = Cardinality({i \in 1..Len(t) : t[i] = e})

\* C24: the loop of insertTestIds runs over the Edits it was given, each once,
\* and every Edit it has already handled is at a (line, column) no smaller
\* than that of every Edit it handles later, whatever the order of the input.
C24_DescendingOrder ==
    pc \in {"loop", "return"} =>
        /\ SameEdits(sorted, insertions)
        /\ \A i \in 1..Len(sorted) : \A j \in 1..Len(sorted) :
               i < j => NotBefore(sorted[i], sorted[j])
        /\ idx \in 1..(Len(sorted) + 1)
        /\ inserted + Len(skipped) = idx - 1

\* Two Edits given in ascending order were both handled, the later one first.
C24_Witness ==
    /\ pc = "return"
    /\ Len(insertions) = 2
    /\ ~NotBefore(insertions[1], insertions[2])
    /\ sorted = <<insertions[2], insertions[1]>>
    /\ inserted = 2

-----------------------------------------------------------------------------
(* Which tag an Edit is applied to *)

\* The step of the loop that handles the Edit sorted[idx].
HandlesEdit == pc = "loop" /\ idx <= Len(sorted) /\ idx' = idx + 1

\* The opening tags the step has modified.
Modified == {i \in 1..Len(ast) : ast'[i] # ast[i]}

\* The tag starts at exactly the Edit's position and has the expected name.
ExactTag(node, ins) ==
    /\ node.loc.line = ins.lineNumber
    /\ node.loc.column = ins.columnNumber
    /\ node.name = ins.elementTagName \/ ins.elementTagName = "*"

\* The tag is on the Edit's line, at the Edit's column unless that is 0, has
\* the expected name up to case, and carries no data-testid attribute.
FittingTag(node, ins) ==
    /\ node.loc.line = ins.lineNumber
    /\ ins.columnNumber # 0 => node.loc.column = ins.columnNumber
    /\ \/ ins.elementTagName \in {"", "*"}
       \/ ToLowerCase(node.name) = ToLowerCase(ins.elementTagName)
    /\ \A j \in 1..Len(node.attributes) : node.attributes[j].name # "data-testid"

\* C25 as stated: an Edit modifies only the opening tag that starts at exactly
\* its (line, column) and has the expected name or is expected as '*'; when
\* there is no such tag nothing is modified and the Edit is skipped.
C25_ExactTagOnly ==
    [][HandlesEdit =>
          /\ \A i \in Modified : ExactTag(ast[i], sorted[idx])
          /\ (\A i \in 1..Len(ast) : ~ExactTag(ast[i], sorted[idx])) =>
                 /\ Modified = {}
                 /\ Len(skipped') = Len(skipped) + 1]_vars

\* C25 amended: an Edit modifies at most one opening tag, the first in document
\* order that is on its line, at its column unless its column is 0, named as
\* expected up to case (or expected as '*'), and without a data-testid
\* attribute; the Edit is skipped with a reason, and nothing is modified, when
\* there is no such tag or when its identifier is already in the file.
C25_FittingTagOnly ==
    [][HandlesEdit =>
          LET ins == sorted[idx]
              fitting == {i \in 1..Len(ast) : FittingTag(ast[i], ins)}
          IN /\ \A i \in Modified :
                    /\ i \in fitting
                    /\ \A k \in fitting : i <= k
                    /\ Modified = {i}
                    /\ inserted' = inserted + 1 /\ skipped' = skipped
             /\ (fitting = {} \/ ins.testId \in existingTestIds) =>
                    /\ Modified = {}
                    /\ inserted' = inserted
                    /\ Len(skipped') = Len(skipped) + 1
                    /\ skipped'[Len(skipped')].testId = ins.testId
                    /\ skipped'[Len(skipped')].reason
                           \in {"already exists in file",
                                "Could not find JSX element at line"}
             /\ (fitting # {} /\ ins.testId \notin existingTestIds) => Modified # {}]_vars

\* An Edit with column 0 and the expected name 'Button' was applied to a
\* button tag at column 4, and another Edit was skipped for want of a tag.
C25_Witness ==
    /\ pc = "return"
    /\ Len(sorted) = 2
    /\ inserted = 1 /\ Len(skipped) = 1
    /\ skipped[1].reason = "Could not find JSX element at line"
    /\ \E e \in 1..2 : \E i \in 1..Len(ast) :
           /\ sorted[e].columnNumber = 0 /\ sorted[e].elementTagName = "Button"
           /\ ast[i].loc.line = sorted[e].lineNumber /\ ast[i].loc.column = 4
           /\ ast[i].name = "button"
           /\ \E j \in 1..Len(ast[i].attributes) :
                  /\ ast[i].attributes[j].name = "data-testid"
                  /\ ast[i].attributes[j].value = sorted[e].testId
                  /\ ~ast[i].attributes[j].loc

-----------------------------------------------------------------------------
(* Mapped identifiers and the previewed source *)

\* The text of a file as processSession previews it: the modified text of its
\* diff, or the text on disk when the run made no diff for it.
PreviewOf(path) ==
    LET diffs == result[1].fileDiffs
        hits == {k \in 1..Len(diffs) : diffs[k].filePath = path}
    IN IF hits = {} THEN disk[path][1] ELSE diffs[CHOOSE k \in hits : TRUE].modified

\* The opening tag the interaction was resolved to carries the identifier in
\* the previewed text of its file.
CarriedFor(it, id) ==
    /\ it.source # <<>>
    /\ FileExists(disk, it.source[1].filePath)
    /\ it.source[1].lineNumber # 0
    /\ LET path == it.source[1].filePath
           text == disk[path][1]
           jsxEl == FindJSXElementAtPosition(AnalyzeReactFile(text),
                                             it.source[1].lineNumber,
                                             it.source[1].columnNumber)
       IN /\ jsxEl # <<>>
          /\ \E i \in 1..Len(text) :
                 /\ text[i].line = jsxEl[1].line /\ text[i].column = jsxEl[1].column
                 /\ \E j \in 1..Len(PreviewOf(path)[i].attributes) :
                        /\ IsTestIdAttr(PreviewOf(path)[i].attributes[j])
                        /\ PreviewOf(path)[i].attributes[j].value = id

\* C29: every identifier the run maps to a selector is carried, in the
\* previewed source, by the opening tag an interaction on that selector was
\* resolved to.
C29_MappedIdCarried ==
    pc = "return" =>
        \A e \in result[1].testIdMap :
            \E n \in 1..Len(session.interactions) :
                /\ session.interactions[n].element.cssSelector = e[1]
                /\ CarriedFor(session.interactions[n], e[2])

-----------------------------------------------------------------------------
(* Interactions without a usable anchor *)

\* The interaction has no source anchor.
NoAnchor(it) == it.source = <<>>

\* The interaction's anchor is in a file that is there, and names no line
\* or resolves to no opening tag of it.
AnchorUnresolved(it) ==
    /\ it.source # <<>>
    /\ FileExists(disk, it.source[1].filePath)
    /\ \/ it.source[1].lineNumber = 0
       \/ FindJSXElementAtPosition(AnalyzeReactFile(disk[it.source[1].filePath][1]),
                                   it.source[1].lineNumber,
                                   it.source[1].columnNumber) = <<>>

\* No Edit of the plan is at the interaction's anchor.
NoEditFor(it) ==
    \A k \in 1..Len(PlannedEdits) :
        ~(/\ it.source # <<>>
          /\ PlannedEdits[k].filePath = it.source[1].filePath
          /\ PlannedEdits[k].lineNumber = it.source[1].lineNumber
          /\ PlannedEdits[k].columnNumber = it.source[1].columnNumber)

\* A warning of the result tells that the interaction was left out.
WarnedAbout(it) ==
    \E k \in 1..Len(result[1].warnings) :
        LET w == result[1].warnings[k]
        IN \/ w.message = "No source file locations found"
           \/ w.message = "No source location for interaction" /\ it.source # <<>>
           \/ /\ w.message = "Could not find JSX element at"
              /\ it.source # <<>>
              /\ w.path = it.source[1].filePath
              /\ w.line = it.source[1].lineNumber
              /\ w.column = it.source[1].columnNumber

\* The statement of the interaction is in the body of a generated test.
InScript(it) ==
    \E k \in 1..Len(result[1].generatedTests) :
        \E a \in Range(GenerateAction(it, result[1].testIdMap)) :
            a \in Range(result[1].generatedTests[k].content.body)

\* C21: an interaction without an anchor, or whose anchor resolves to no
\* element, gives no Edit and a warning, never an error, and a click among
\* them that consolidation keeps still has its statement in a generated script.
C21_UnanchoredInteraction ==
    pc = "return" =>
        \A n \in 1..Len(session.interactions) :
            LET it == session.interactions[n]
            IN (NoAnchor(it) \/ AnchorUnresolved(it)) =>
                   /\ NoEditFor(it)
                   /\ Len(PlannedEdits)
                          <= Cardinality({m \in 1..Len(session.interactions) :
                                 ~NoAnchor(session.interactions[m])
                                 /\ ~AnchorUnresolved(session.interactions[m])})
                   /\ WarnedAbout(it)
                   /\ result[1].errors = <<>>
                   /\ (it.type = "click" /\ ~IsFocusClick(session.interactions, n))
                          => InScript(it)

-----------------------------------------------------------------------------
(* Session lifecycle *)

\* The status changes of the lifecycle
\* recording -> paused <-> recording -> stopped -> processing -> completed|error
\* (a paused session may be stopped).
Lifecycle ==
    {<<"recording", "paused">>, <<"paused", "recording">>,
     <<"recording", "stopped">>, <<"paused", "stopped">>,
     <<"stopped", "processing">>,
     <<"processing", "completed">>, <<"processing", "error">>}

\* C23: whatever events and requests arrive, the status of a session changes
\* only along the lifecycle; a stopped, processing, completed or failed
\* session never becomes recording or paused again.
C23_StatusLifecycle ==
    [][\A id \in SessionIds :
          (/\ sessions[id] # <<>> /\ sessions'[id] # <<>>
           /\ sessions'[id][1].status # sessions[id][1].status)
              => <<sessions[id][1].status, sessions'[id][1].status>> \in Lifecycle]_vars


====
